---- MODULE Spec2Model ----
(***************************************************************************)
(* The signature transform of signatory: the truncated tensor algebra      *)
(* kernels (tensor_algebra_ops.cpp), the term layout (misc.inl) and the    *)
(* forward/backward signature drivers (signature.cpp).                     *)
(*                                                                         *)
(* Numbers are exact rationals.  A tensor of shape (batch, n) is modelled  *)
(* by one batch row, a sequence of n scalars: every kernel of the source   *)
(* broadcasts or batch-multiplies over the batch axis, so each batch row   *)
(* is transformed independently of the others.  The batch size itself is   *)
(* kept in the shape of each argument.                                     *)
(***************************************************************************)
EXTENDS Integers, Sequences, FiniteSets, TLC

(***************************************************************************)
(* Exact arithmetic.  A scalar is <<numerator, denominator>> in lowest     *)
(* terms with a positive denominator.                                      *)
(***************************************************************************)
Abs(x) == IF x < 0 THEN -x ELSE x

RECURSIVE Gcd(_, _)
Gcd(a, b) == IF b = 0 THEN a ELSE Gcd(b, a % b)

Rat(n, d) == LET g == Gcd(Abs(n), d) IN <<n \div g, d \div g>>

Int2Rat(n) == <<n, 1>>

Zero == Int2Rat(0)

RAdd(x, y) ==
    IF x[2] = 1 /\ y[2] = 1 THEN <<x[1] + y[1], 1>>
    ELSE Rat(x[1] * y[2] + y[1] * x[2], x[2] * y[2])

RMul(x, y) ==
    IF x[2] = 1 /\ y[2] = 1 THEN <<x[1] * y[1], 1>>
    ELSE Rat(x[1] * y[1], x[2] * y[2])

RNeg(x) == <<-x[1], x[2]>>

RSub(x, y) == RAdd(x, RNeg(y))

\* The sequence f with its values computed once
Values(f) == f \o <<>>

\* Elementwise operations on one batch row.
VAdd(a, b) == Values([i \in 1..Len(a) |-> RAdd(a[i], b[i])])

VSub(a, b) == Values([i \in 1..Len(a) |-> RSub(a[i], b[i])])

VNeg(a) == Values([i \in 1..Len(a) |-> RNeg(a[i])])

VScale(a, r) == Values([i \in 1..Len(a) |-> RMul(a[i], r)])

VZero(n) == Values([i \in 1..n |-> Zero])

RECURSIVE RSum(_, _)
RSum(a, i) == IF i > Len(a) THEN Zero ELSE RAdd(a[i], RSum(a, i + 1))

\* sum(a * b) over one batch row
Dot(a, b) == RSum([i \in 1..Len(a) |-> RMul(a[i], b[i])], 1)

\* row.unsqueeze(channel_dim) * col.unsqueeze(channel_dim - 1), read through the
\* flat view of the (|row|, |col|) result: entry (a, c) sits at a * |col| + c.
Broadcast(row, col) ==
    Values([i \in 1..(Len(row) * Len(col)) |->
               RMul(row[((i - 1) \div Len(col)) + 1], col[((i - 1) % Len(col)) + 1])])

\* bmm of a (n, m) view of `mat` with the column vector `vec` (length m)
MatVec(mat, vec) ==
    Values([a \in 1..(Len(mat) \div Len(vec)) |->
               RSum([c \in 1..Len(vec) |-> RMul(mat[(a - 1) * Len(vec) + c], vec[c])], 1)])

\* bmm of the row vector `vec` (length n) with a (n, m) view of `mat`
VecMat(vec, mat) ==
    Values([c \in 1..(Len(mat) \div Len(vec)) |->
               RSum([a \in 1..Len(vec) |->
                        RMul(vec[a], mat[(a - 1) * (Len(mat) \div Len(vec)) + c])], 1)])

(***************************************************************************)
(* misc.inl                                                                *)
(***************************************************************************)
\* [1/2, 1/3, ..., 1/depth]; empty for depth = 1
make_reciprocals(depth) == [i \in 1..(depth - 1) |-> Rat(1, i + 1)]

\* The views slice_by_term pushes: view i is <<start, length>> on the last axis.
RECURSIVE slice_by_term_loop(_, _, _, _, _)
slice_by_term_loop(out, current_memory_pos, current_memory_length, input_channel_size, depth) ==
    IF Len(out) >= depth THEN out
    ELSE slice_by_term_loop(Append(out, <<current_memory_pos, current_memory_length>>),
                            current_memory_pos + current_memory_length,
                            current_memory_length * input_channel_size,
                            input_channel_size, depth)

slice_by_term(input_channel_size, depth) ==
    slice_by_term_loop(<<>>, 0, input_channel_size, input_channel_size, depth)

\* Reading a buffer through its views
ByTerm(in, input_channel_size, depth) ==
    LET views == slice_by_term(input_channel_size, depth)
    IN Values([i \in 1..depth |->
                  SubSeq(in, views[i][1] + 1, views[i][1] + views[i][2])])

\* Writing through the views: the views alias the buffer, so only the entries a
\* view covers change.
StoreByTerm(in, terms, input_channel_size, depth) ==
    LET views == slice_by_term(input_channel_size, depth)
        covering(w) == {i \in 1..depth : views[i][1] < w /\ w <= views[i][1] + views[i][2]}
    IN Values([w \in 1..Len(in) |->
                  IF covering(w) = {} THEN in[w]
                  ELSE LET i == CHOOSE i \in covering(w) : \A k \in covering(w) : k <= i
                       IN terms[i][w - views[i][1]]])

RECURSIVE Power(_, _)
Power(b, e) == IF e = 0 THEN 1 ELSE b * Power(b, e - 1)

\* C + C^2 + ... + C^D
signature_channels(input_channel_size, depth) ==
    IF input_channel_size = 1 THEN depth
    ELSE (input_channel_size * (Power(input_channel_size, depth) - 1))
             \div (input_channel_size - 1)

(***************************************************************************)
(* tensor_algebra_ops.cpp: forward kernels on the per-depth terms          *)
(***************************************************************************)
\* restricted_exp_loop altered: the term is not multiplied by reciprocals[i]
RECURSIVE restricted_exp_loop_unscaled(_, _, _)
restricted_exp_loop_unscaled(in, out, reciprocals) ==
    IF Len(out) > Len(reciprocals) THEN out
    ELSE restricted_exp_loop_unscaled(in, Append(out, Broadcast(in, out[Len(out)])),
                                      reciprocals)

RECURSIVE restricted_exp_loop(_, _, _)
restricted_exp_loop(in, out, reciprocals) ==
    IF Len(out) > Len(reciprocals) THEN out
    ELSE restricted_exp_loop(in,
            Append(out, VScale(Broadcast(in, out[Len(out)]), reciprocals[Len(out)])),
            reciprocals)

restricted_exp(in, reciprocals) == restricted_exp_loop(in, <<in>>, reciprocals)

\* fused_scratch altered: prev[j] is not added into the scratch
RECURSIVE fused_scratch_no_prev(_, _, _, _, _, _)
fused_scratch_no_prev(scratch, j, depth_index, prev, next_divided, inverse) ==
    IF j >= depth_index THEN scratch
    ELSE LET k == depth_index - 1 - j
             prod == IF inverse THEN Broadcast(next_divided[k + 1], scratch)
                                ELSE Broadcast(scratch, next_divided[k + 1])
         IN fused_scratch_no_prev(prod, j + 1, depth_index, prev, next_divided, inverse)

\* The inner j-loop of the fused kernel from scratch index j on; k = depth_index - 1 - j.
RECURSIVE fused_scratch(_, _, _, _, _, _)
fused_scratch(scratch, j, depth_index, prev, next_divided, inverse) ==
    IF j >= depth_index THEN scratch
    ELSE LET k == depth_index - 1 - j
             prod == IF inverse THEN Broadcast(next_divided[k + 1], scratch)
                                ELSE Broadcast(scratch, next_divided[k + 1])
         IN fused_scratch(VAdd(prev[j + 1], prod), j + 1, depth_index, prev,
                          next_divided, inverse)

\* tensor_algebra_ops.cpp lines 141-171: the scratch of mult_fused_restricted_exp for
\* depth_index once its inner loop has reached j = stop
RECURSIVE fused_scratch_until(_, _, _, _, _, _, _)
fused_scratch_until(scratch, j, stop, depth_index, prev, next_divided, inverse) ==
    IF j >= stop THEN scratch
    ELSE LET k == depth_index - 1 - j
             prod == IF inverse THEN Broadcast(next_divided[k + 1], scratch)
                                ELSE Broadcast(scratch, next_divided[k + 1])
         IN fused_scratch_until(VAdd(prev[j + 1], prod), j + 1, stop, depth_index, prev,
                                next_divided, inverse)

\* fused_depth_loop altered: next is not added onto prev[0] after the loop
RECURSIVE fused_depth_loop_keep_first(_, _, _, _, _)
fused_depth_loop_keep_first(depth_index, prev, next, next_divided, inverse) ==
    IF depth_index < 1 THEN prev
    ELSE LET scratch == fused_scratch(VAdd(prev[1], next_divided[depth_index]), 1,
                                      depth_index, prev, next_divided, inverse)
             prod == IF inverse THEN Broadcast(next, scratch)
                                ELSE Broadcast(scratch, next)
         IN fused_depth_loop_keep_first(depth_index - 1,
                [prev EXCEPT ![depth_index + 1] = VAdd(prev[depth_index + 1], prod)],
                next, next_divided, inverse)

\* The descending depth loop; prev is updated in place, depth by depth.
RECURSIVE fused_depth_loop(_, _, _, _, _)
fused_depth_loop(depth_index, prev, next, next_divided, inverse) ==
    IF depth_index < 1 THEN [prev EXCEPT ![1] = VAdd(prev[1], next)]
    ELSE LET scratch == fused_scratch(VAdd(prev[1], next_divided[depth_index]), 1,
                                      depth_index, prev, next_divided, inverse)
             prod == IF inverse THEN Broadcast(next, scratch)
                                ELSE Broadcast(scratch, next)
         IN fused_depth_loop(depth_index - 1,
                [prev EXCEPT ![depth_index + 1] = VAdd(prev[depth_index + 1], prod)],
                next, next_divided, inverse)

mult_fused_restricted_exp(next, prev, inverse, reciprocals) ==
    LET next_divided == [i \in 1..Len(reciprocals) |-> VScale(next, reciprocals[i])]
    IN fused_depth_loop(Len(prev) - 1, prev, next, next_divided, inverse)

\* mult_inner altered: the outer product taken in the opposite order
RECURSIVE mult_inner_swapped(_, _, _, _, _)
mult_inner_swapped(tensor_at_depth, arg1, arg2, depth_index, j) ==
    IF j >= depth_index THEN tensor_at_depth
    ELSE mult_inner_swapped(
             VAdd(tensor_at_depth, Broadcast(arg2[depth_index - j], arg1[j + 1])),
             arg1, arg2, depth_index, j + 1)

\* mult_inner altered: the loop stops one term early (j < depth_index - 1)
RECURSIVE mult_inner_skip_last(_, _, _, _, _)
mult_inner_skip_last(tensor_at_depth, arg1, arg2, depth_index, j) ==
    IF j >= depth_index - 1 THEN tensor_at_depth
    ELSE mult_inner_skip_last(
             VAdd(tensor_at_depth, Broadcast(arg1[j + 1], arg2[depth_index - j])),
             arg1, arg2, depth_index, j + 1)

RECURSIVE mult_inner(_, _, _, _, _)
mult_inner(tensor_at_depth, arg1, arg2, depth_index, j) ==
    IF j >= depth_index THEN tensor_at_depth
    ELSE mult_inner(VAdd(tensor_at_depth, Broadcast(arg1[j + 1], arg2[depth_index - j])),
                    arg1, arg2, depth_index, j + 1)

\* mult_loop altered: the depths are updated in ascending order
RECURSIVE mult_loop_ascending(_, _, _)
mult_loop_ascending(arg1, arg2, depth_index) ==
    IF depth_index < 0 THEN arg1
    ELSE LET d == Len(arg1) - 1 - depth_index
         IN mult_loop_ascending(
                [arg1 EXCEPT ![d + 1] =
                    VAdd(mult_inner(arg1[d + 1], arg1, arg2, d, 0), arg2[d + 1])],
                arg2, depth_index - 1)

RECURSIVE mult_loop(_, _, _)
mult_loop(arg1, arg2, depth_index) ==
    IF depth_index < 0 THEN arg1
    ELSE mult_loop([arg1 EXCEPT ![depth_index + 1] =
                        VAdd(mult_inner(arg1[depth_index + 1], arg1, arg2, depth_index, 0),
                             arg2[depth_index + 1])],
                   arg2, depth_index - 1)

mult(arg1, arg2) == mult_loop(arg1, arg2, Len(arg1) - 1)

\* The loop of mult_inner_backward from index j down; k = depth_index - 1 - j.  Both
\* callers pass the view grad_arg1[depth_index] as grad_tensor_at_depth, so it is
\* read through grad_arg1 at every use.  The result is <<grad_arg1, grad_arg2>>.
RECURSIVE mult_inner_backward(_, _, _, _, _, _)
mult_inner_backward(grad_arg1, grad_arg2, arg1, arg2, depth_index, j) ==
    IF j < 0 THEN <<grad_arg1, grad_arg2>>
    ELSE LET k == depth_index - 1 - j
             out_view == grad_arg1[depth_index + 1]
             new_grad_arg1 ==
                 [grad_arg1 EXCEPT ![j + 1] = VAdd(@, MatVec(out_view, arg2[k + 1]))]
             new_grad_arg2 ==
                 [grad_arg2 EXCEPT ![k + 1] = VAdd(@, VecMat(arg1[j + 1], out_view))]
         IN mult_inner_backward(new_grad_arg1, new_grad_arg2, arg1, arg2,
                                depth_index, j - 1)

\* ret = arg1_inp.clone(); mult on its views; the result is the flat buffer
signature_combine_forward(arg1_inp, arg2_inp, input_channels, depth) ==
    StoreByTerm(arg1_inp,
                mult(ByTerm(arg1_inp, input_channels, depth),
                     ByTerm(arg2_inp, input_channels, depth)),
                input_channels, depth)

(***************************************************************************)
(* tensor_algebra_ops.cpp: backward kernels.  Each returns the tensors it  *)
(* writes, in the order of its parameters.                                 *)
(***************************************************************************)
\* Lines 105-112: the loop from index i down to 0
RECURSIVE restricted_exp_backward_loop(_, _, _, _, _, _)
restricted_exp_backward_loop(i, grad_in, grad_out, in, out, reciprocals) ==
    IF i < 0 THEN <<grad_in, grad_out>>
    ELSE LET view_grad_out == VScale(grad_out[i + 2], reciprocals[i + 1])
             scaled == [grad_out EXCEPT ![i + 2] = view_grad_out]
         IN restricted_exp_backward_loop(
                i - 1,
                VAdd(grad_in, MatVec(view_grad_out, out[i + 1])),
                [scaled EXCEPT ![i + 1] = VAdd(@, VecMat(in, view_grad_out))],
                in, out, reciprocals)

\* restricted_exp_backward altered: grad_out[0] is not added onto grad_in
restricted_exp_backward_no_first_term(grad_in, grad_out, in, out, reciprocals) ==
    LET depth == Len(out)
    IN IF depth > 1
       THEN LET view_grad_out == VScale(grad_out[depth], reciprocals[depth - 1])
                scaled == [grad_out EXCEPT ![depth] = view_grad_out]
                first == MatVec(view_grad_out, out[depth - 1])
                second == [scaled EXCEPT ![depth - 1] = VAdd(@, VecMat(in, view_grad_out))]
                looped == restricted_exp_backward_loop(depth - 3, first, second, in, out,
                                                       reciprocals)
            IN <<looped[1], looped[2]>>
       ELSE <<grad_out[1], grad_out>>

\* <<grad_in, grad_out>>; the incoming grad_in is overwritten (bmm_out, copy_)
restricted_exp_backward(grad_in, grad_out, in, out, reciprocals) ==
    LET depth == Len(out)
    IN IF depth > 1
       THEN LET view_grad_out == VScale(grad_out[depth], reciprocals[depth - 1])
                scaled == [grad_out EXCEPT ![depth] = view_grad_out]
                first == MatVec(view_grad_out, out[depth - 1])
                second == [scaled EXCEPT ![depth - 1] = VAdd(@, VecMat(in, view_grad_out))]
                looped == restricted_exp_backward_loop(depth - 3, first, second, in, out,
                                                       reciprocals)
            IN <<VAdd(looped[1], looped[2][1]), looped[2]>>
       ELSE <<grad_out[1], grad_out>>

\* fused_scratches altered: the outer product is taken as if inverse were false
RECURSIVE fused_scratches_ignoring_inverse(_, _, _, _, _, _)
fused_scratches_ignoring_inverse(scratches, j, depth_index, prev, next_divided, inverse) ==
    IF j >= depth_index THEN scratches
    ELSE LET k == depth_index - 1 - j
             scratch == scratches[Len(scratches)]
             prod == Broadcast(scratch, next_divided[k + 1])
         IN fused_scratches_ignoring_inverse(Append(scratches, VAdd(prev[j + 1], prod)),
                                             j + 1, depth_index, prev, next_divided,
                                             inverse)

\* Lines 213-232: the scratches of one depth_index, from scratch index j on
RECURSIVE fused_scratches(_, _, _, _, _, _)
fused_scratches(scratches, j, depth_index, prev, next_divided, inverse) ==
    IF j >= depth_index THEN scratches
    ELSE LET k == depth_index - 1 - j
             scratch == scratches[Len(scratches)]
             prod == IF inverse THEN Broadcast(next_divided[k + 1], scratch)
                                ELSE Broadcast(scratch, next_divided[k + 1])
         IN fused_scratches(Append(scratches, VAdd(prev[j + 1], prod)), j + 1,
                            depth_index, prev, next_divided, inverse)

\* Lines 286-318: the inner loop from j down to 1, grad_scratch being the gradient
\* of scratches[j]; <<gradient of scratches[0], grad_prev, grad_next_divided>>
RECURSIVE fused_backward_inner(_, _, _, _, _, _, _, _)
fused_backward_inner(j, grad_scratch, grad_prev, grad_next_divided, scratches, next_divided, depth_index, inverse) ==
    IF j < 1 THEN <<grad_scratch, grad_prev, grad_next_divided>>
    ELSE LET k == depth_index - 1 - j
             old_scratch == scratches[j]
             grad_old_scratch ==
                 IF inverse THEN VecMat(next_divided[k + 1], grad_scratch)
                            ELSE MatVec(grad_scratch, next_divided[k + 1])
             into_next_divided ==
                 IF inverse THEN MatVec(grad_scratch, old_scratch)
                            ELSE VecMat(old_scratch, grad_scratch)
         IN fused_backward_inner(
                j - 1, grad_old_scratch,
                [grad_prev EXCEPT ![j + 1] = VAdd(@, grad_scratch)],
                [grad_next_divided EXCEPT ![k + 1] = VAdd(@, into_next_divided)],
                scratches, next_divided, depth_index, inverse)

\* Lines 255-322: the ascending loop; <<grad_next, grad_prev, grad_next_divided>>
RECURSIVE fused_backward_depth(_, _, _, _, _, _, _, _)
fused_backward_depth(depth_index, grad_next, grad_prev, grad_next_divided, next, prev, next_divided, inverse) ==
    IF depth_index >= Len(prev) THEN <<grad_next, grad_prev, grad_next_divided>>
    ELSE LET scratches == fused_scratches(<<VAdd(prev[1], next_divided[depth_index])>>,
                                          1, depth_index, prev, next_divided, inverse)
             scratch == scratches[Len(scratches)]
             grad_prev_view == grad_prev[depth_index + 1]
             grad_scratch == IF inverse THEN VecMat(next, grad_prev_view)
                                        ELSE MatVec(grad_prev_view, next)
             into_next == IF inverse THEN MatVec(grad_prev_view, scratch)
                                     ELSE VecMat(scratch, grad_prev_view)
             inner == fused_backward_inner(depth_index - 1, grad_scratch, grad_prev,
                                           grad_next_divided, scratches, next_divided,
                                           depth_index, inverse)
         IN fused_backward_depth(
                depth_index + 1,
                VAdd(grad_next, into_next),
                [inner[2] EXCEPT ![1] = VAdd(@, inner[1])],
                [inner[3] EXCEPT ![depth_index] = VAdd(@, inner[1])],
                next, prev, next_divided, inverse)

\* Lines 255-322: one pass of the ascending loop over the scratches of depth_index;
\* <<grad_next, grad_prev, grad_next_divided>>
fused_backward_pass(depth_index, scratches, grad_next, grad_prev, grad_next_divided, next, next_divided, inverse) ==
    LET scratch == scratches[Len(scratches)]
        grad_prev_view == grad_prev[depth_index + 1]
        grad_scratch == IF inverse THEN VecMat(next, grad_prev_view)
                                   ELSE MatVec(grad_prev_view, next)
        into_next == IF inverse THEN MatVec(grad_prev_view, scratch)
                                ELSE VecMat(scratch, grad_prev_view)
        inner == fused_backward_inner(depth_index - 1, grad_scratch, grad_prev,
                                      grad_next_divided, scratches, next_divided,
                                      depth_index, inverse)
    IN <<VAdd(grad_next, into_next),
         [inner[2] EXCEPT ![1] = VAdd(@, inner[1])],
         [inner[3] EXCEPT ![depth_index] = VAdd(@, inner[1])]>>

\* Line 331: grad_next += reciprocals * grad_next_divided, from row i on
RECURSIVE collapse_next_divided(_, _, _, _)
collapse_next_divided(grad_next, grad_next_divided, reciprocals, i) ==
    IF i > Len(reciprocals) THEN grad_next
    ELSE collapse_next_divided(
             VAdd(grad_next, VScale(grad_next_divided[i], reciprocals[i])),
             grad_next_divided, reciprocals, i + 1)

\* <<grad_next, grad_prev>>; the incoming grad_next is overwritten (copy_)
mult_fused_restricted_exp_backward(grad_next, grad_prev, next, prev, inverse, reciprocals) ==
    LET next_divided == [i \in 1..Len(reciprocals) |-> VScale(next, reciprocals[i])]
        swept == fused_backward_depth(
                     1, grad_prev[1], grad_prev,
                     [i \in 1..Len(reciprocals) |-> VZero(Len(next))],
                     next, prev, next_divided, inverse)
    IN <<IF Len(prev) > 1
         THEN collapse_next_divided(swept[1], swept[3], reciprocals, 1)
         ELSE swept[1],
         swept[2]>>

(***************************************************************************)
(* signature.cpp: path increments                                          *)
(***************************************************************************)
\* compute_path_increments altered: inverse without a basepoint is not negated
compute_path_increments_unsigned(path, basepoint, basepoint_value, inverse) ==
    IF basepoint
    THEN IF inverse
         THEN [s \in 1..Len(path) |->
                  VSub(IF s = 1 THEN basepoint_value ELSE path[s - 1], path[s])]
         ELSE [s \in 1..Len(path) |->
                  IF s = 1 THEN VSub(path[1], basepoint_value)
                  ELSE VSub(path[s], path[s - 1])]
    ELSE [s \in 1..(Len(path) - 1) |-> VSub(path[s + 1], path[s])]

\* compute_path_increments altered: the basepoint is not subtracted from path[0]
compute_path_increments_no_basepoint(path, basepoint, basepoint_value, inverse) ==
    IF basepoint
    THEN IF inverse
         THEN [s \in 1..Len(path) |->
                  IF s = 1 THEN VNeg(path[1]) ELSE VSub(path[s - 1], path[s])]
         ELSE [s \in 1..Len(path) |->
                  IF s = 1 THEN path[1] ELSE VSub(path[s], path[s - 1])]
    ELSE IF inverse
         THEN [s \in 1..(Len(path) - 1) |-> VSub(path[s], path[s + 1])]
         ELSE [s \in 1..(Len(path) - 1) |-> VSub(path[s + 1], path[s])]

\* compute_path_increments altered: with a basepoint the increment at s >= 1 is the
\* difference of the next pair of points (of the last pair at the end of the stream)
compute_path_increments_shifted(path, basepoint, basepoint_value, inverse) ==
    LET num_increments == Len(path) - 1
        later(s) == IF s < Len(path) THEN s + 1 ELSE s
    IN IF basepoint
       THEN IF inverse
            THEN [s \in 1..Len(path) |->
                     IF s = 1 THEN VSub(basepoint_value, path[1])
                     ELSE VSub(path[later(s) - 1], path[later(s)])]
            ELSE [s \in 1..Len(path) |->
                     IF s = 1 THEN VSub(path[1], basepoint_value)
                     ELSE VSub(path[later(s)], path[later(s) - 1])]
       ELSE IF inverse
            THEN [s \in 1..num_increments |-> VSub(path[s], path[s + 1])]
            ELSE [s \in 1..num_increments |-> VSub(path[s + 1], path[s])]

\* path is the sequence over the stream axis of the points of one batch row
compute_path_increments(path, basepoint, basepoint_value, inverse) ==
    LET num_increments == Len(path) - 1
    IN IF basepoint
       THEN IF inverse
            THEN [s \in 1..Len(path) |->
                     VSub(IF s = 1 THEN basepoint_value ELSE path[s - 1], path[s])]
            ELSE [s \in 1..Len(path) |->
                     IF s = 1 THEN VSub(path[1], basepoint_value)
                     ELSE VSub(path[s], path[s - 1])]
       ELSE IF inverse
            THEN [s \in 1..num_increments |-> VSub(path[s], path[s + 1])]
            ELSE [s \in 1..num_increments |-> VSub(path[s + 1], path[s])]

\* compute_path_increments_backward altered: the inverse flag is ignored
compute_path_increments_backward_unsigned(grad_path_increments, basepoint, inverse) ==
    LET n == Len(grad_path_increments)
        zero == VZero(Len(grad_path_increments[1]))
    IN IF basepoint
       THEN <<[s \in 1..n |->
                  IF s < n
                  THEN VSub(grad_path_increments[s], grad_path_increments[s + 1])
                  ELSE grad_path_increments[s]],
              VNeg(grad_path_increments[1])>>
       ELSE LET copied == [s \in 1..(n + 1) |->
                              IF s >= 2 THEN grad_path_increments[s - 1] ELSE zero]
            IN <<[s \in 1..(n + 1) |->
                     IF s <= n THEN VSub(copied[s], grad_path_increments[s])
                     ELSE copied[s]],
                 <<>>>>

\* <<grad_path, grad_basepoint_value>>; every row of the torch::empty buffers is
\* written (one row zeroed, the others copied) before the subtraction
compute_path_increments_backward(grad_path_increments, basepoint, inverse) ==
    LET n == Len(grad_path_increments)
        zero == VZero(Len(grad_path_increments[1]))
    IN IF basepoint
       THEN IF inverse
            THEN LET copied == [s \in 1..n |->
                                   IF s < n THEN grad_path_increments[s + 1] ELSE zero]
                 IN <<[s \in 1..n |-> VSub(copied[s], grad_path_increments[s])],
                      grad_path_increments[1]>>
            ELSE <<[s \in 1..n |->
                       IF s < n
                       THEN VSub(grad_path_increments[s], grad_path_increments[s + 1])
                       ELSE grad_path_increments[s]],
                   VNeg(grad_path_increments[1])>>
       ELSE IF inverse
            THEN LET copied == [s \in 1..(n + 1) |->
                                   IF s <= n THEN grad_path_increments[s] ELSE zero]
                 IN <<[s \in 1..(n + 1) |->
                          IF s >= 2 THEN VSub(copied[s], grad_path_increments[s - 1])
                          ELSE copied[s]],
                      <<>>>>
            ELSE LET copied == [s \in 1..(n + 1) |->
                                   IF s >= 2 THEN grad_path_increments[s - 1] ELSE zero]
                 IN <<[s \in 1..(n + 1) |->
                          IF s <= n THEN VSub(copied[s], grad_path_increments[s])
                          ELSE copied[s]],
                      <<>>>>

(***************************************************************************)
(* signature.cpp: argument validation                                      *)
(***************************************************************************)
\* stream_dim, batch_dim and channel_dim count from the last axis (-3, -2, -1)
Size(tensor, dim) ==
    CASE dim = "channel" -> tensor.shape[Len(tensor.shape)]
      [] dim = "batch" -> tensor.shape[Len(tensor.shape) - 1]
      [] dim = "stream" -> tensor.shape[Len(tensor.shape) - 2]

ndimension(tensor) == Len(tensor.shape)

is_floating_point(tensor) == tensor.dtype \in {"float32", "float64"}

is_cuda(tensor) == tensor.device = "cuda"

make_opts(tensor) == <<tensor.dtype, tensor.device>>

\* signature_checkargs altered: basepoint and initial are compared by dtype only
signature_checkargs_dtype_only(p, d, bp, bp_value, ini, ini_value) ==
    IF ndimension(p) = 2 THEN "path is 2-dimensional"
    ELSE IF ndimension(p) # 3 THEN "path is not 3-dimensional"
    ELSE IF Size(p, "batch") = 0 \/ Size(p, "stream") = 0 \/ Size(p, "channel") = 0
         THEN "path has a dimension of size zero"
    ELSE IF ~bp /\ Size(p, "stream") = 1 THEN "path needs stream size at least 2"
    ELSE IF d < 1 THEN "depth must be at least one"
    ELSE IF ~is_floating_point(p) THEN "path is not floating point"
    ELSE IF bp /\ ndimension(bp_value) # 2 THEN "basepoint is not 2-dimensional"
    ELSE IF bp /\ (Size(bp_value, "channel") # Size(p, "channel")
                   \/ Size(bp_value, "batch") # Size(p, "batch"))
         THEN "basepoint and path sizes differ"
    ELSE IF bp /\ p.dtype # bp_value.dtype
         THEN "basepoint dtype or device differs"
    ELSE IF ini /\ ndimension(ini_value) # 2 THEN "initial is not 2-dimensional"
    ELSE IF ini /\ (Size(ini_value, "channel") # signature_channels(Size(p, "channel"), d)
                    \/ Size(ini_value, "batch") # Size(p, "batch"))
         THEN "initial has wrong sizes"
    ELSE IF ini /\ p.dtype # ini_value.dtype
         THEN "initial dtype or device differs"
    ELSE "ok"

\* "ok", or the std::invalid_argument that is thrown first
signature_checkargs(p, d, bp, bp_value, ini, ini_value) ==
    IF ndimension(p) = 2 THEN "path is 2-dimensional"
    ELSE IF ndimension(p) # 3 THEN "path is not 3-dimensional"
    ELSE IF Size(p, "batch") = 0 \/ Size(p, "stream") = 0 \/ Size(p, "channel") = 0
         THEN "path has a dimension of size zero"
    ELSE IF ~bp /\ Size(p, "stream") = 1 THEN "path needs stream size at least 2"
    ELSE IF d < 1 THEN "depth must be at least one"
    ELSE IF ~is_floating_point(p) THEN "path is not floating point"
    ELSE IF bp /\ ndimension(bp_value) # 2 THEN "basepoint is not 2-dimensional"
    ELSE IF bp /\ (Size(bp_value, "channel") # Size(p, "channel")
                   \/ Size(bp_value, "batch") # Size(p, "batch"))
         THEN "basepoint and path sizes differ"
    ELSE IF bp /\ make_opts(p) # make_opts(bp_value)
         THEN "basepoint dtype or device differs"
    ELSE IF ini /\ ndimension(ini_value) # 2 THEN "initial is not 2-dimensional"
    ELSE IF ini /\ (Size(ini_value, "channel") # signature_channels(Size(p, "channel"), d)
                    \/ Size(ini_value, "batch") # Size(p, "batch"))
         THEN "initial has wrong sizes"
    ELSE IF ini /\ make_opts(p) # make_opts(ini_value)
         THEN "initial dtype or device differs"
    ELSE "ok"

(***************************************************************************)
(* signature.cpp: the forward driver, as pure functions of one batch row   *)
(***************************************************************************)
\* an entry of torch::empty memory: not a number until it is written
Uninit == <<0, 0>>

empty(n) == [i \in 1..n |-> Uninit]

\* The per-row CPU kernel the batch loop calls.  It is the fused update of
\* mult_fused_restricted_exp for a single batch row.
mult_fused_restricted_exp_single_cpu(next, prev, inverse, reciprocals) ==
    mult_fused_restricted_exp(next, prev, inverse, reciprocals)

\* first_term altered: the initial value is multiplied on without the increment
first_term_initial_only(increment0, inverse, ini, ini_data, input_channel_size, d) ==
    IF ini THEN ini_data
    ELSE StoreByTerm(empty(signature_channels(input_channel_size, d)),
                     restricted_exp(increment0, make_reciprocals(d)),
                     input_channel_size, d)

\* Lines 329-357: allocate a buffer and compute the first term in it
first_term(increment0, inverse, ini, ini_data, input_channel_size, d) ==
    LET reciprocals == make_reciprocals(d)
        buffer == empty(signature_channels(input_channel_size, d))
    IN IF ini
       THEN StoreByTerm(ini_data,
                mult_fused_restricted_exp(increment0,
                                          ByTerm(ini_data, input_channel_size, d),
                                          inverse, reciprocals),
                input_channel_size, d)
       ELSE StoreByTerm(buffer, restricted_exp(increment0, reciprocals),
                        input_channel_size, d)

\* fused_step altered: the kernel is called with inverse = false whatever the flag
fused_step_not_inverse(row, next, inverse, input_channel_size, d, on_cuda) ==
    LET prev == ByTerm(row, input_channel_size, d)
        reciprocals == make_reciprocals(d)
    IN StoreByTerm(row,
            IF on_cuda THEN mult_fused_restricted_exp(next, prev, FALSE, reciprocals)
            ELSE mult_fused_restricted_exp_single_cpu(next, prev, FALSE, reciprocals),
            input_channel_size, d)

\* fused_step altered: with inverse = true the increment is negated once more
fused_step_negated(row, next, inverse, input_channel_size, d, on_cuda) ==
    LET prev == ByTerm(row, input_channel_size, d)
        reciprocals == make_reciprocals(d)
        signed == IF inverse THEN VNeg(next) ELSE next
    IN StoreByTerm(row,
            IF on_cuda THEN mult_fused_restricted_exp(signed, prev, inverse, reciprocals)
            ELSE mult_fused_restricted_exp_single_cpu(signed, prev, inverse, reciprocals),
            input_channel_size, d)

\* One iteration of the stream loop on the flat buffer at the current stream index
fused_step(row, next, inverse, input_channel_size, d, on_cuda) ==
    LET prev == ByTerm(row, input_channel_size, d)
        reciprocals == make_reciprocals(d)
    IN StoreByTerm(row,
            IF on_cuda THEN mult_fused_restricted_exp(next, prev, inverse, reciprocals)
            ELSE mult_fused_restricted_exp_single_cpu(next, prev, inverse, reciprocals),
            input_channel_size, d)

\* The serial loop over 0-based stream indices start .. end-1 with stream = false
RECURSIVE inner_loop(_, _, _, _, _, _, _, _)
inner_loop(row, increments, start, end, inverse, input_channel_size, d, on_cuda) ==
    IF start >= end THEN row
    ELSE inner_loop(fused_step(row, increments[start + 1], inverse, input_channel_size,
                               d, on_cuda),
                    increments, start + 1, end, inverse, input_channel_size, d, on_cuda)

Min(a, b) == IF a < b THEN a ELSE b

ParallelThreshold == 1392640

is_small(batch_size, output_stream_size, output_channel_size) ==
    batch_size * output_stream_size * output_channel_size < ParallelThreshold

\* choose_stream_threads altered: the clamp is (input_stream_size + 2) / 2
choose_stream_threads_half_clamp(batch_size, input_stream_size, output_stream_size, output_channel_size, is_stream, omp_max_threads, max_par) ==
    LET first == IF is_small(batch_size, output_stream_size, output_channel_size) THEN 1
                 ELSE Min((omp_max_threads + batch_size - 1) \div batch_size,
                          (input_stream_size + 2) \div 2)
        second == IF is_stream THEN 1 ELSE first
    IN Min(second, max_par)

\* choose_stream_threads altered: the clamp by (input_stream_size + 2) / 3 is dropped
choose_stream_threads_unclamped(batch_size, input_stream_size, output_stream_size, output_channel_size, is_stream, omp_max_threads, max_par) ==
    LET first == IF is_small(batch_size, output_stream_size, output_channel_size) THEN 1
                 ELSE (omp_max_threads + batch_size - 1) \div batch_size
        second == IF is_stream THEN 1 ELSE first
    IN Min(second, max_par)

\* choose_stream_threads altered: stream = true does not force one stream thread
choose_stream_threads_ignoring_stream(batch_size, input_stream_size, output_stream_size, output_channel_size, is_stream, omp_max_threads, max_par) ==
    LET first == IF is_small(batch_size, output_stream_size, output_channel_size) THEN 1
                 ELSE Min((omp_max_threads + batch_size - 1) \div batch_size,
                          (input_stream_size + 2) \div 3)
    IN Min(first, max_par)

\* Lines 371-395
choose_stream_threads(batch_size, input_stream_size, output_stream_size, output_channel_size, is_stream, omp_max_threads, max_par) ==
    LET first == IF is_small(batch_size, output_stream_size, output_channel_size) THEN 1
                 ELSE Min((omp_max_threads + batch_size - 1) \div batch_size,
                          (input_stream_size + 2) \div 3)
        second == IF is_stream THEN 1 ELSE first
    IN Min(second, max_par)

choose_batch_threads(batch_size, output_stream_size, output_channel_size, omp_max_threads) ==
    IF is_small(batch_size, output_stream_size, output_channel_size) THEN 1
    ELSE Min(batch_size, omp_max_threads)

\* chunk_start altered: the leading 1 + is dropped, so thread 0 starts at stream index 0
chunk_start_floor(output_stream_size, thread_num, n_threads) ==
    ((output_stream_size - 1) * thread_num) \div n_threads

\* Lines 422-423: the chunk [start, end) of thread thread_num out of num_threads
chunk_start(output_stream_size, thread_num, n_threads) ==
    1 + ((output_stream_size - 1) * thread_num) \div n_threads

\* chunk_end altered: the chunk stops one stream index early
chunk_end_short(output_stream_size, thread_num, n_threads) ==
    ((output_stream_size - 1) * (1 + thread_num)) \div n_threads

chunk_end(output_stream_size, thread_num, n_threads) ==
    1 + ((output_stream_size - 1) * (1 + thread_num)) \div n_threads

\* chunk_signature altered: the loop starts at start, so increments[start] is used twice
chunk_signature_from_start(increments, start, end, inverse, input_channel_size, d) ==
    inner_loop(StoreByTerm(empty(signature_channels(input_channel_size, d)),
                           restricted_exp(increments[start + 1], make_reciprocals(d)),
                           input_channel_size, d),
               increments, start, end, inverse, input_channel_size, d, FALSE)

\* Lines 424-447: the private signature of one chunk (only called when start < end)
chunk_signature(increments, start, end, inverse, input_channel_size, d) ==
    inner_loop(StoreByTerm(empty(signature_channels(input_channel_size, d)),
                           restricted_exp(increments[start + 1], make_reciprocals(d)),
                           input_channel_size, d),
               increments, start + 1, end, inverse, input_channel_size, d, FALSE)

\* The combine of line 453 passes the outer inverse flag to mult; the product
\* it performs is global <- global (x) chunk.
mult_inverse(arg1, arg2, inverse_flag) == mult(arg1, arg2)

\* The whole serial forward pass with stream = false, as one function
signature_serial(path_data, d, bp, bp_data, inv, ini, ini_data, on_cuda) ==
    LET increments == compute_path_increments(path_data, bp, bp_data, inv)
        input_channel_size == Len(path_data[1])
    IN inner_loop(first_term(increments[1], inv, ini, ini_data, input_channel_size, d),
                  increments, 1, Len(increments), inv, input_channel_size, d, on_cuda)

\* Lines 528-549 of signature_backward: the stream loop from stream_index down to 1;
\* <<grad_path_increments, grad_signature_at_stream, signature_at_stream>>
RECURSIVE backward_loop(_, _, _, _, _, _, _, _, _, _)
backward_loop(stream_index, grad_path_increments, grad_signature_at_stream, signature_at_stream, grad_signature, signature, path_increments, depth, stream, inverse) ==
    IF stream_index < 1
    THEN <<grad_path_increments, grad_signature_at_stream, signature_at_stream>>
    ELSE LET c == Len(path_increments[1])
             reciprocals == make_reciprocals(depth)
             next == path_increments[stream_index + 1]
             at_stream ==
                 IF stream THEN signature[stream_index]
                 ELSE StoreByTerm(signature_at_stream,
                                  mult_fused_restricted_exp(
                                      VNeg(next), ByTerm(signature_at_stream, c, depth),
                                      inverse, reciprocals),
                                  c, depth)
             back == mult_fused_restricted_exp_backward(
                         grad_path_increments[stream_index + 1],
                         ByTerm(grad_signature_at_stream, c, depth), next,
                         ByTerm(at_stream, c, depth), inverse, reciprocals)
             stored == StoreByTerm(grad_signature_at_stream, back[2], c, depth)
         IN backward_loop(stream_index - 1,
                          [grad_path_increments EXCEPT ![stream_index + 1] = back[1]],
                          IF stream THEN VAdd(stored, grad_signature[stream_index])
                          ELSE stored,
                          at_stream, grad_signature, signature, path_increments, depth,
                          stream, inverse)

\* The whole of signature_backward as one function of its arguments:
\* <<grad_path, grad_basepoint_value, grad_signature_at_stream>>
signature_backward(grad_signature, signature, path_increments, depth, stream, basepoint, inverse, initial) ==
    LET size == Len(path_increments)
        c == Len(path_increments[1])
        reciprocals == make_reciprocals(depth)
        looped == backward_loop(
                      size - 1, [s \in 1..size |-> empty(c)],
                      IF stream THEN grad_signature[size] ELSE grad_signature,
                      IF stream THEN (IF size < 2 THEN signature[1] ELSE <<>>)
                      ELSE signature,
                      grad_signature, signature, path_increments, depth, stream,
                      inverse)
        next == path_increments[1]
        recovered == StoreByTerm(looped[3],
                                 mult_fused_restricted_exp(
                                     VNeg(next), ByTerm(looped[3], c, depth), inverse,
                                     reciprocals),
                                 c, depth)
        back == IF initial
                THEN mult_fused_restricted_exp_backward(
                         looped[1][1], ByTerm(looped[2], c, depth), next,
                         ByTerm(recovered, c, depth), inverse, reciprocals)
                ELSE restricted_exp_backward(
                         looped[1][1], ByTerm(looped[2], c, depth), next,
                         ByTerm(looped[3], c, depth), reciprocals)
        increments_back == compute_path_increments_backward(
                               [looped[1] EXCEPT ![1] = back[1]], basepoint, inverse)
    IN <<increments_back[1], increments_back[2],
         StoreByTerm(looped[2], back[2], c, depth)>>

(***************************************************************************)
(* State of one call of signature_forward                                  *)
(***************************************************************************)
VARIABLES
    path,              \* argument: [shape, dtype, device, data]
    depth,             \* argument
    stream,            \* argument
    basepoint,         \* argument
    basepoint_value,   \* argument: [shape, dtype, device, data]
    inverse,           \* argument
    initial,           \* argument
    initial_value,     \* argument: [shape, dtype, device, data]
    omp_max_threads,   \* omp_get_max_threads()
    max_parallelism,   \* get_max_parallelism()
    pc,                \* position of the driver
    path_increments,   \* <<>> until computed
    signature,         \* <<>> until allocated; a row, or a sequence of rows if stream
    stream_index,      \* loop counter of the serial driver (0-based, as in the source)
    stream_threads,    \* 0 until chosen
    batch_threads,     \* 0 until chosen
    num_threads,       \* omp_get_num_threads() inside the parallel region
    omp_results,       \* per thread: the chunk's signature by term, <<>> if never set
    omp_used,          \* per thread: bool_wrapper.value
    ran,               \* threads of the parallel region that have finished
    chunk_pc,          \* per thread of the region: its position in lines 420-447
    chunk_index,       \* per thread of the region: its stream_index
    omp_signature,     \* per thread of the region: its private chunk signature
    batch_writes,      \* per thread: per batch thread of its last fused step, rows written
    ret,               \* "none", "invalid_argument" or "returned"
    out,                     \* slice_by_term: the views pushed so far, <<start, len>>
    current_memory_pos,      \* slice_by_term
    current_memory_length,   \* slice_by_term
    arg1_inp,                \* signature_combine_backward: argument
    arg2_inp,                \* signature_combine_backward: argument
    grad,                    \* signature_combine_backward: argument
    input_channels,          \* signature_combine_backward: argument
    grad_arg1_inp,           \* signature_combine_backward
    grad_arg2_inp,           \* signature_combine_backward
    depth_index,             \* loop counter of the tensor algebra kernel in progress
    combined,                \* signature_combine_forward: ret, the clone of arg1_inp
    grad_signature,            \* signature_backward: argument
    grad_signature_at_stream,  \* signature_backward
    signature_at_stream,       \* signature_backward: what signature_by_term_at_stream views
    borrowed,                  \* signature_backward: which caller's memory the two buffers view
    grad_path_increments,      \* signature_backward
    grad_path,                 \* signature_backward: result
    grad_basepoint_value,      \* signature_backward: result
    grad_initial_value,        \* signature_backward: result
    all_scratches,             \* mult_fused_restricted_exp_backward
    grad_next_divided          \* mult_fused_restricted_exp_backward

layout_vars == <<out, current_memory_pos, current_memory_length>>

combine_vars == <<arg1_inp, arg2_inp, grad, input_channels, grad_arg1_inp,
                  grad_arg2_inp, depth_index, combined>>

replay_vars == <<all_scratches, grad_next_divided>>

backward_vars == <<replay_vars, grad_signature, grad_signature_at_stream, signature_at_stream, borrowed,
                   grad_path_increments, grad_path, grad_basepoint_value,
                   grad_initial_value>>

kernel_vars == <<layout_vars, combine_vars, backward_vars>>

vars == <<path, depth, stream, basepoint, basepoint_value, inverse, initial,
          initial_value, omp_max_threads, max_parallelism, pc, path_increments,
          signature, stream_index, stream_threads, batch_threads, num_threads,
          omp_results,
          omp_used, ran, chunk_pc, chunk_index, omp_signature, batch_writes, ret,
          kernel_vars>>

args == <<path, depth, stream, basepoint, basepoint_value, inverse, initial,
          initial_value, omp_max_threads, max_parallelism>>

chunk_vars == <<chunk_pc, chunk_index, omp_signature, batch_writes>>

parallel_vars == <<num_threads, omp_results, omp_used, ran, chunk_vars>>

batch_size == Size(path, "batch")
input_stream_size == Size(path, "stream")
input_channel_size == Size(path, "channel")
output_stream_size == input_stream_size - (IF basepoint THEN 0 ELSE 1)
output_channel_size == signature_channels(input_channel_size, depth)

(***************************************************************************)
(* Bounds of the model and the inputs drawn within them                    *)
(***************************************************************************)
MaxStream == 4
MaxDepth == 3
MaxThreads == 3

Channels == {1, 2}

Coordinates == {0, 1}

Scalars == {Int2Rat(v) : v \in Coordinates}

Points(c) == [1..c -> Scalars]

PathData(n, c) == [1..n -> Points(c)]

Tensor(shape, dtype, device, data) ==
    [shape |-> shape, dtype |-> dtype, device |-> device, data |-> data]

\* the empty tensor passed for an argument that is not supplied
NoTensor == Tensor(<<0>>, "float64", "cpu", <<>>)

\* initial values: the signatures of the one-increment paths
InitialData(c, d) ==
    {StoreByTerm(empty(signature_channels(c, d)),
                 restricted_exp(x, make_reciprocals(d)), c, d) : x \in Points(c)}

TypeOK ==
    /\ pc \in {"call", "increments", "first_term", "inner", "inner_cpu", "parallel",
               "region", "combine", "done", "error"}
    /\ ret \in {"none", "invalid_argument", "returned"}
    /\ stream \in BOOLEAN /\ basepoint \in BOOLEAN
    /\ inverse \in BOOLEAN /\ initial \in BOOLEAN

(***************************************************************************)
(* Actions of signature_forward                                            *)
(***************************************************************************)
\* Line 307: signature_checkargs either throws or lets the call proceed
CheckArgs ==
    /\ pc = "call"
    /\ LET verdict == signature_checkargs(path, depth, basepoint, basepoint_value,
                                          initial, initial_value)
       IN IF verdict = "ok"
          THEN pc' = "increments" /\ ret' = ret
          ELSE pc' = "error" /\ ret' = "invalid_argument"
    /\ UNCHANGED <<kernel_vars, args, path_increments, signature, stream_index, stream_threads, batch_threads,
                   parallel_vars>>

\* Lines 316-343: path increments and the output buffer
ComputeIncrements ==
    /\ pc = "increments"
    /\ path_increments' = compute_path_increments(path.data, basepoint,
                                                  basepoint_value.data, inverse)
    /\ signature' = IF stream
                    THEN [s \in 1..output_stream_size |-> empty(output_channel_size)]
                    ELSE empty(output_channel_size)
    /\ pc' = "first_term"
    /\ UNCHANGED <<kernel_vars, args, stream_index, stream_threads, batch_threads, parallel_vars, ret>>

\* Lines 345-405: the first term, then the choice of the driver
FirstTerm ==
    /\ pc = "first_term"
    /\ LET first == first_term(path_increments[1], inverse, initial,
                               initial_value.data, input_channel_size, depth)
       IN signature' = IF stream THEN [signature EXCEPT ![1] = first] ELSE first
    /\ stream_index' = 1
    /\ IF is_cuda(path)
       THEN /\ pc' = "inner"
            /\ stream_threads' = stream_threads
            /\ batch_threads' = batch_threads
       ELSE /\ stream_threads' =
                   choose_stream_threads(batch_size, input_stream_size,
                                         output_stream_size, output_channel_size,
                                         stream, omp_max_threads, max_parallelism)
            /\ batch_threads' =
                   choose_batch_threads(batch_size, output_stream_size,
                                        output_channel_size, omp_max_threads)
            /\ pc' = IF stream_threads' = 1 THEN "inner_cpu" ELSE "parallel"
    /\ UNCHANGED <<kernel_vars, args, path_increments, parallel_vars, ret>>

\* StreamStep altered: in stream mode the new slice is copied from slice 0
StreamStep_from_first(on_cuda) ==
    /\ stream_index < output_stream_size
    /\ signature' =
          IF stream
          THEN [signature EXCEPT ![stream_index + 1] =
                   fused_step(signature[1], path_increments[stream_index + 1],
                              inverse, input_channel_size, depth, on_cuda)]
          ELSE fused_step(signature, path_increments[stream_index + 1], inverse,
                          input_channel_size, depth, on_cuda)
    /\ stream_index' = stream_index + 1
    /\ UNCHANGED <<kernel_vars, args, pc, path_increments, stream_threads, batch_threads, parallel_vars, ret>>

\* One iteration of the stream loop, on the row the views point at
StreamStep(on_cuda) ==
    /\ stream_index < output_stream_size
    /\ signature' =
          IF stream
          THEN [signature EXCEPT ![stream_index + 1] =
                   fused_step(signature[stream_index], path_increments[stream_index + 1],
                              inverse, input_channel_size, depth, on_cuda)]
          ELSE fused_step(signature, path_increments[stream_index + 1], inverse,
                          input_channel_size, depth, on_cuda)
    /\ stream_index' = stream_index + 1
    /\ UNCHANGED <<kernel_vars, args, pc, path_increments, stream_threads, batch_threads, parallel_vars, ret>>

\* Lines 137-146
signature_forward_inner == pc = "inner" /\ StreamStep(TRUE)

\* Lines 174-212 with start = 1, end = output_stream_size
signature_forward_inner_cpu == pc = "inner_cpu" /\ StreamStep(FALSE)

\* Lines 407-416: the result vectors, and the team the runtime grants
EnterParallel ==
    /\ pc = "parallel"
    /\ omp_results' = [t \in 1..stream_threads |-> <<>>]
    /\ omp_used' = [t \in 1..stream_threads |-> FALSE]
    /\ num_threads' \in 1..stream_threads
    /\ ran' = {}
    /\ pc' = "region"
    /\ UNCHANGED <<kernel_vars, args, path_increments, signature, stream_index,
                   stream_threads, batch_threads, chunk_vars, ret>>

\* Lines 415-448: the body of one thread of the parallel region
ChunkThread(t) ==
    /\ pc = "region"
    /\ t \in 0..(num_threads - 1)
    /\ t \notin ran
    /\ LET start == chunk_start(output_stream_size, t, num_threads)
           end == chunk_end(output_stream_size, t, num_threads)
       IN IF start < end
          THEN /\ omp_results' =
                     [omp_results EXCEPT ![t + 1] =
                         ByTerm(chunk_signature(path_increments, start, end, inverse,
                                                input_channel_size, depth),
                                input_channel_size, depth)]
               /\ omp_used' = [omp_used EXCEPT ![t + 1] = TRUE]
          ELSE UNCHANGED <<omp_results, omp_used>>
    /\ ran' = ran \cup {t}
    /\ UNCHANGED <<kernel_vars, args, pc, path_increments, signature, stream_index,
                   stream_threads, batch_threads, num_threads, chunk_vars, ret>>

\* The implicit barrier at the end of the parallel region
Join ==
    /\ pc = "region"
    /\ ran = 0..(num_threads - 1)
    /\ pc' = "combine"
    /\ stream_index' = 0
    /\ UNCHANGED <<kernel_vars, args, path_increments, signature, stream_threads, batch_threads, parallel_vars, ret>>

\* Lines 451-457: one iteration of the combine loop (stream_index holds thread_index)
Combine ==
    /\ pc = "combine"
    /\ stream_index < stream_threads
    /\ signature' =
          IF omp_used[stream_index + 1]
          THEN StoreByTerm(signature,
                   mult_inverse(ByTerm(signature, input_channel_size, depth),
                                omp_results[stream_index + 1], inverse),
                   input_channel_size, depth)
          ELSE signature
    /\ stream_index' = stream_index + 1
    /\ UNCHANGED <<kernel_vars, args, pc, path_increments, stream_threads, batch_threads, parallel_vars, ret>>

\* Line 461
Return ==
    /\ \/ pc \in {"inner", "inner_cpu"} /\ stream_index >= output_stream_size
       \/ pc = "combine" /\ stream_index >= stream_threads
    /\ pc' = "done"
    /\ ret' = "returned"
    /\ UNCHANGED <<kernel_vars, args, path_increments, signature, stream_index, stream_threads, batch_threads,
                   parallel_vars>>

(***************************************************************************)
(* Spec: calls with valid arguments on small problems (serial drivers)     *)
(***************************************************************************)
\* No slicing, combine or backward call is in progress
LayoutIdle ==
    /\ out = <<>>
    /\ current_memory_pos = 0
    /\ current_memory_length = 0

CombineIdle ==
    /\ arg1_inp = <<>>
    /\ arg2_inp = <<>>
    /\ grad = <<>>
    /\ input_channels = 0
    /\ grad_arg1_inp = <<>>
    /\ grad_arg2_inp = <<>>
    /\ depth_index = 0
    /\ combined = <<>>

BackwardIdle ==
    /\ grad_signature = <<>>
    /\ grad_signature_at_stream = <<>>
    /\ signature_at_stream = <<>>
    /\ borrowed = [at_stream |-> 0, grad |-> 0]
    /\ grad_path_increments = <<>>
    /\ grad_path = <<>>
    /\ grad_basepoint_value = <<>>
    /\ grad_initial_value = <<>>
    /\ all_scratches = <<>>
    /\ grad_next_divided = <<>>

\* The driver's own state before the call starts
DriverIdle ==
    /\ path_increments = <<>>
    /\ signature = <<>>
    /\ stream_index = 0
    /\ stream_threads = 0
    /\ batch_threads = 0
    /\ num_threads = 0
    /\ omp_results = <<>>
    /\ omp_used = <<>>
    /\ ran = {}
    /\ chunk_pc = <<>>
    /\ chunk_index = <<>>
    /\ omp_signature = <<>>
    /\ batch_writes = <<>>
    /\ ret = "none"

\* Nothing has run yet and signature_forward is about to be called
Idle ==
    /\ LayoutIdle /\ CombineIdle /\ BackwardIdle /\ DriverIdle
    /\ pc = "call"

\* Valid arguments: path of n points for n in sizes, flags within the given sets
ValidCall(sizes, streams, basepoints, inverses, initials) ==
    /\ \E c \in Channels, n \in sizes, device \in {"cpu", "cuda"} :
          /\ depth \in 1..MaxDepth
          /\ basepoint \in basepoints
          /\ initial \in initials
          /\ path \in {Tensor(<<n, 1, c>>, "float64", device, data) :
                           data \in PathData(n, c)}
          /\ basepoint_value \in
                IF basepoint
                THEN {Tensor(<<1, c>>, "float64", device, data) : data \in Points(c)}
                ELSE {NoTensor}
          /\ initial_value \in
                IF initial
                THEN {Tensor(<<1, signature_channels(c, depth)>>, "float64", device, data) :
                          data \in InitialData(c, depth)}
                ELSE {NoTensor}
    /\ stream \in streams
    /\ inverse \in inverses
    /\ omp_max_threads = MaxThreads
    /\ max_parallelism = MaxThreads

Init == ValidCall(2..MaxStream, BOOLEAN, {FALSE}, BOOLEAN, {FALSE}) /\ Idle

Next ==
    \/ CheckArgs
    \/ ComputeIncrements
    \/ FirstTerm
    \/ signature_forward_inner
    \/ signature_forward_inner_cpu
    \/ Return

Spec == Init /\ [][Next]_vars

(***************************************************************************)
(* SpecChunk: calls on the CPU whose problem size passes the threshold, so *)
(* that the stream axis is split into chunks.  The batch holds             *)
(* ParallelThreshold rows, and omp_get_max_threads() is MaxThreads times   *)
(* that, which leaves up to MaxThreads threads for the stream axis.        *)
(***************************************************************************)
\* the paths from the origin whose every step is a unit vector
RECURSIVE StairData(_, _)
StairData(n, c) ==
    IF n = 1 THEN {<<[i \in 1..c |-> Zero]>>}
    ELSE {Append(p, [i \in 1..c |-> RAdd(p[n - 1][i], Int2Rat(IF i = k THEN 1 ELSE 0))]) :
              p \in StairData(n - 1, c), k \in 1..c}

\* the longest paths are needed for MaxThreads chunks: (N + 2) / 3 = MaxThreads
LongStream == 3 * MaxThreads - 2

ChunkCall ==
    /\ \E c \in Channels :
          path \in {Tensor(<<Len(data), ParallelThreshold, c>>, "float64", "cpu", data) :
                        data \in PathData(MaxStream, c) \cup StairData(LongStream, c)}
    /\ depth \in 1..MaxDepth
    /\ stream = FALSE
    /\ basepoint = FALSE
    /\ basepoint_value = NoTensor
    /\ inverse = FALSE
    /\ initial = FALSE
    /\ initial_value = NoTensor
    /\ omp_max_threads = MaxThreads * ParallelThreshold
    /\ max_parallelism \in 1..MaxThreads

NextChunk ==
    \/ CheckArgs
    \/ ComputeIncrements
    \/ FirstTerm
    \/ signature_forward_inner_cpu
    \/ EnterParallel
    \/ \E t \in 0..(MaxThreads - 1) : ChunkThread(t)
    \/ Join
    \/ Combine
    \/ Return

InitChunk == ChunkCall /\ Idle

SpecChunk == InitChunk /\ [][NextChunk]_vars

InitBasepoint ==
    ValidCall(1..(MaxStream - 1), BOOLEAN, {TRUE}, BOOLEAN, {FALSE}) /\ Idle

SpecBasepoint == InitBasepoint /\ [][Next]_vars

InitInitial ==
    ValidCall(2..(MaxStream - 1), BOOLEAN, {FALSE}, BOOLEAN, {TRUE}) /\ Idle

SpecInitial == InitInitial /\ [][Next]_vars

(***************************************************************************)
(* SpecLayout: misc::slice_by_term, one loop iteration per step, slicing   *)
(* the buffer of a path with C channels at depth D.                         *)
(***************************************************************************)
MaxLayoutChannels == 5
MaxLayoutDepth == 6

\* Lines 41-44
SliceEnter ==
    /\ pc = "slice"
    /\ current_memory_pos' = 0
    /\ current_memory_length' = input_channel_size
    /\ out' = <<>>
    /\ pc' = "slice_loop"
    /\ UNCHANGED <<args, path_increments, signature, stream_index, stream_threads, batch_threads,
                   parallel_vars, ret, combine_vars, backward_vars>>

\* SlicePush altered: the length grows by addition
SlicePush_additive ==
    /\ pc = "slice_loop"
    /\ Len(out) < depth
    /\ out' = Append(out, <<current_memory_pos, current_memory_length>>)
    /\ current_memory_pos' = current_memory_pos + current_memory_length
    /\ current_memory_length' = current_memory_length + input_channel_size
    /\ UNCHANGED <<args, pc, path_increments, signature, stream_index, stream_threads, batch_threads,
                   parallel_vars, ret, combine_vars, backward_vars>>

\* Lines 45-51: one iteration, i = Len(out)
SlicePush ==
    /\ pc = "slice_loop"
    /\ Len(out) < depth
    /\ out' = Append(out, <<current_memory_pos, current_memory_length>>)
    /\ current_memory_pos' = current_memory_pos + current_memory_length
    /\ current_memory_length' = current_memory_length * input_channel_size
    /\ UNCHANGED <<args, pc, path_increments, signature, stream_index, stream_threads, batch_threads,
                   parallel_vars, ret, combine_vars, backward_vars>>

\* Line 45: the loop condition fails
SliceExit ==
    /\ pc = "slice_loop"
    /\ Len(out) >= depth
    /\ pc' = "slice_done"
    /\ UNCHANGED <<args, path_increments, signature, stream_index, stream_threads, batch_threads,
                   parallel_vars, ret, kernel_vars>>

\* The buffer sliced is that of a two-point path at the origin with C channels
LayoutCall ==
    /\ \E c \in 1..MaxLayoutChannels :
          path = Tensor(<<2, 1, c>>, "float64", "cpu",
                        [s \in 1..2 |-> [ch \in 1..c |-> Zero]])
    /\ depth \in 1..MaxLayoutDepth
    /\ stream = FALSE /\ basepoint = FALSE /\ inverse = FALSE /\ initial = FALSE
    /\ basepoint_value = NoTensor /\ initial_value = NoTensor
    /\ omp_max_threads = 1 /\ max_parallelism = 1

InitLayout ==
    /\ LayoutCall
    /\ LayoutIdle /\ CombineIdle /\ BackwardIdle /\ DriverIdle
    /\ pc = "slice"

NextLayout == SliceEnter \/ SlicePush \/ SliceExit

SpecLayout == InitLayout /\ [][NextLayout]_vars

\* C9: slice_by_term returns exactly D views; the k-th starts at C + ... + C^(k-1)
\* and has length C^k, so the views are pairwise disjoint, adjacent in ascending
\* order and cover exactly [0, W), W = C(C^D - 1)/(C - 1), or D when C = 1.
C9_TermLayout ==
    pc = "slice_done" =>
        LET C == input_channel_size
            D == depth
            W == IF C = 1 THEN D ELSE (C * (Power(C, D) - 1)) \div (C - 1)
            Offset(k) == RSum([j \in 1..(k - 1) |-> Int2Rat(Power(C, j))], 1)[1]
            Covered(k) == (out[k][1])..(out[k][1] + out[k][2] - 1)
        IN /\ Len(out) = D
           /\ \A k \in 1..D : out[k] = <<Offset(k), Power(C, k)>>
           /\ \A j, k \in 1..D : j < k => Covered(j) \cap Covered(k) = {}
           /\ \A k \in 1..(D - 1) : out[k][1] + out[k][2] = out[k + 1][1]
           /\ C # 1 => (C * (Power(C, D) - 1)) % (C - 1) = 0
           /\ UNION {Covered(k) : k \in 1..D} = 0..(W - 1)
           /\ out = slice_by_term(C, D)

C9_Witness ==
    /\ pc = "slice_done"
    /\ input_channel_size = 3
    /\ depth = 4
    /\ out = <<(<<0, 3>>), (<<3, 9>>), (<<12, 27>>), (<<39, 81>>)>>

(***************************************************************************)
(* SpecArgs: calls whose arguments may be invalid in every way             *)
(* signature_checkargs looks at                                            *)
(***************************************************************************)
\* (stream, batch, channel) shapes with sizes from 0, and 1-, 2- and 4-dimensional ones
PathShapes ==
    {<<2>>, <<2, 1>>, <<1, 2, 1, 1>>}
        \cup {<<n, b, c>> : n \in 0..2, b \in 0..1, c \in 0..2}

PathOpts ==
    {<<"float64", "cpu">>, <<"float64", "cuda">>, <<"float32", "cpu">>, <<"int64", "cpu">>}

ValueOpts == {<<"float64", "cpu">>, <<"float32", "cpu">>, <<"float64", "cuda">>}

BasepointShapes == {<<1>>, <<1, 1>>, <<1, 2>>, <<2, 1>>}

InitialShapes == {<<1>>, <<1, 1>>, <<1, 2>>, <<1, 6>>, <<2, 2>>}

\* the points of a path of the given shape: point s has s * ch at channel ch
ArgData(shape) ==
    IF Len(shape) = 3
    THEN [s \in 1..shape[1] |-> [ch \in 1..shape[3] |-> Int2Rat(s * ch)]]
    ELSE <<>>

\* one batch row of a (batch, channel) value filled with v
RowData(shape, v) == [ch \in 1..shape[Len(shape)] |-> Int2Rat(v)]

ArgsCall ==
    /\ path \in {Tensor(shape, o[1], o[2], ArgData(shape)) :
                     shape \in PathShapes, o \in PathOpts}
    /\ depth \in 0..2
    /\ basepoint \in BOOLEAN
    /\ basepoint_value \in
          IF basepoint
          THEN {Tensor(shape, o[1], o[2], RowData(shape, 0)) :
                    shape \in BasepointShapes, o \in ValueOpts}
          ELSE {NoTensor}
    /\ initial \in BOOLEAN
    /\ initial_value \in
          IF initial
          THEN {Tensor(shape, o[1], o[2], RowData(shape, 1)) :
                    shape \in InitialShapes, o \in ValueOpts}
          ELSE {NoTensor}
    /\ stream = FALSE
    /\ inverse = FALSE
    /\ omp_max_threads = MaxThreads
    /\ max_parallelism = MaxThreads

InitArgs == ArgsCall /\ Idle

SpecArgs == InitArgs /\ [][Next]_vars

\* a supplied (batch, channel) value disagrees with path in shape, dtype or device
Disagrees(value, channels) ==
    \/ value.shape # <<Size(path, "batch"), channels>>
    \/ value.dtype # path.dtype
    \/ value.device # path.device

\* the conditions under which the call must be refused
ArgsInvalid ==
    \/ ndimension(path) # 3
    \/ \E axis \in 1..3 : path.shape[axis] = 0
    \/ ~basepoint /\ Size(path, "stream") < 2
    \/ depth < 1
    \/ ~is_floating_point(path)
    \/ basepoint /\ Disagrees(basepoint_value, Size(path, "channel"))
    \/ initial /\ Disagrees(initial_value,
                            signature_channels(Size(path, "channel"), depth))

\* C10: a call with an invalid argument ends in an invalid-argument error before path
\* increments or the output buffer exist and returns no signature; a call whose
\* arguments are all valid raises no validation error.
C10_ArgumentValidation ==
    pc # "call" =>
        IF ArgsInvalid
        THEN /\ pc = "error"
             /\ ret = "invalid_argument"
             /\ path_increments = <<>>
             /\ signature = <<>>
        ELSE pc # "error" /\ ret # "invalid_argument"

C10_Witness ==
    /\ pc = "error"
    /\ ret = "invalid_argument"
    /\ path.shape = <<2, 1, 2>>
    /\ path.dtype = "float64"
    /\ depth = 2
    /\ ~basepoint
    /\ initial
    /\ initial_value.shape = <<1, 2>>
    /\ make_opts(initial_value) = make_opts(path)

(***************************************************************************)
(* SpecCombine: signature_combine_backward, one depth of the sweep per     *)
(* step, on arbitrary tensors of the signature's width                      *)
(***************************************************************************)
\* Lines 483-496
CombineBackwardEnter ==
    /\ pc = "combine_backward"
    /\ IF Len(grad) # Len(arg1_inp)
       THEN /\ pc' = "error"
            /\ ret' = "invalid_argument"
            /\ UNCHANGED <<grad_arg1_inp, grad_arg2_inp, depth_index>>
       ELSE /\ grad_arg1_inp' = grad
            /\ grad_arg2_inp' = VZero(Len(arg2_inp))
            /\ depth_index' = 0
            /\ pc' = "combine_backward_loop"
            /\ ret' = ret
    /\ UNCHANGED <<args, path_increments, signature, stream_index, stream_threads, batch_threads,
                   parallel_vars, layout_vars, backward_vars, arg1_inp, arg2_inp,
                   grad, input_channels, combined>>

\* CombineBackwardStep altered: the gradient is not added into grad_arg2[depth_index]
CombineBackwardStep_no_scalar_term ==
    /\ pc = "combine_backward_loop"
    /\ depth_index < depth
    /\ LET grad_arg1 == ByTerm(grad_arg1_inp, input_channels, depth)
           grad_arg2 == ByTerm(grad_arg2_inp, input_channels, depth)
           swept == mult_inner_backward(grad_arg1, grad_arg2,
                                        ByTerm(arg1_inp, input_channels, depth),
                                        ByTerm(arg2_inp, input_channels, depth),
                                        depth_index, depth_index - 1)
       IN /\ grad_arg1_inp' = StoreByTerm(grad_arg1_inp, swept[1], input_channels, depth)
          /\ grad_arg2_inp' = StoreByTerm(grad_arg2_inp, swept[2], input_channels, depth)
    /\ depth_index' = depth_index + 1
    /\ UNCHANGED <<args, pc, path_increments, signature, stream_index, stream_threads, batch_threads,
                   parallel_vars, ret, layout_vars, backward_vars, arg1_inp, arg2_inp,
                   grad, input_channels, combined>>

\* Lines 498-502: one iteration of the ascending sweep
CombineBackwardStep ==
    /\ pc = "combine_backward_loop"
    /\ depth_index < depth
    /\ LET grad_arg1 == ByTerm(grad_arg1_inp, input_channels, depth)
           grad_arg2 == ByTerm(grad_arg2_inp, input_channels, depth)
           added == [grad_arg2 EXCEPT ![depth_index + 1] =
                        VAdd(@, grad_arg1[depth_index + 1])]
           swept == mult_inner_backward(grad_arg1, added,
                                        ByTerm(arg1_inp, input_channels, depth),
                                        ByTerm(arg2_inp, input_channels, depth),
                                        depth_index, depth_index - 1)
       IN /\ grad_arg1_inp' = StoreByTerm(grad_arg1_inp, swept[1], input_channels, depth)
          /\ grad_arg2_inp' = StoreByTerm(grad_arg2_inp, swept[2], input_channels, depth)
    /\ depth_index' = depth_index + 1
    /\ UNCHANGED <<args, pc, path_increments, signature, stream_index, stream_threads, batch_threads,
                   parallel_vars, ret, layout_vars, backward_vars, arg1_inp, arg2_inp,
                   grad, input_channels, combined>>

\* Line 503
CombineBackwardReturn ==
    /\ pc = "combine_backward_loop"
    /\ depth_index >= depth
    /\ pc' = "combine_backward_done"
    /\ UNCHANGED <<args, path_increments, signature, stream_index, stream_threads, batch_threads,
                   parallel_vars, ret, kernel_vars>>

\* tensors of width w with entries that tell positions apart
Ramp(w) == [i \in 1..w |-> Int2Rat(i)]

Zigzag(w) == [i \in 1..w |-> Int2Rat(((i * i) % 5) - 2)]

Bits(w) == [i \in 1..w |-> Int2Rat(i % 2)]

Unit(w, m) == [i \in 1..w |-> Int2Rat(IF i = m THEN 1 ELSE 0)]

Units(w) == {Unit(w, m) : m \in 1..w}

\* No call of signature_forward is in progress
NoCall ==
    /\ path = NoTensor
    /\ stream = FALSE /\ basepoint = FALSE /\ inverse = FALSE /\ initial = FALSE
    /\ basepoint_value = NoTensor /\ initial_value = NoTensor
    /\ omp_max_threads = 1 /\ max_parallelism = 1

CombineCall ==
    /\ input_channels \in Channels
    /\ depth \in 1..MaxDepth
    /\ LET w == signature_channels(input_channels, depth)
       IN /\ arg1_inp \in {Ramp(w), Zigzag(w), Bits(w)}
          /\ arg2_inp \in {Ramp(w), Zigzag(w), Bits(w)}
          /\ grad \in Units(w) \cup {Ramp(w)}
    /\ grad_arg1_inp = <<>>
    /\ grad_arg2_inp = <<>>
    /\ depth_index = 0
    /\ combined = <<>>

InitCombine ==
    /\ NoCall /\ CombineCall
    /\ LayoutIdle /\ BackwardIdle /\ DriverIdle
    /\ pc = "combine_backward"

NextCombine == CombineBackwardEnter \/ CombineBackwardStep \/ CombineBackwardReturn

SpecCombine == InitCombine /\ [][NextCombine]_vars

\* d/dx_i <g, f(x)> at x by the central difference, exact when f has degree <= 2 in x_i
Central(f(_), g, x, i) ==
    LET e == Unit(Len(x), i)
    IN RMul(Rat(1, 2), RSub(Dot(g, f(VAdd(x, e))), Dot(g, f(VSub(x, e)))))

\* the transposed Jacobian of f at x applied to g
JacobianT(f(_), g, x) == [i \in 1..Len(x) |-> Central(f, g, x, i)]

\* C8: signature_combine_backward returns the transposed Jacobian of
\* signature_combine_forward in (sig1, sig2) applied to grad; and in the ascending
\* sweep every grad_arg1[d] not yet reached still holds the incoming gradient, so it
\* is read before any contribution from a higher depth is accumulated into it.
C8_CombineBackward ==
    /\ pc = "combine_backward_loop" =>
          \A d \in (depth_index + 1)..depth :
              ByTerm(grad_arg1_inp, input_channels, depth)[d]
                  = ByTerm(grad, input_channels, depth)[d]
    /\ pc = "combine_backward_done" =>
          LET in1(x) == signature_combine_forward(x, arg2_inp, input_channels, depth)
              in2(x) == signature_combine_forward(arg1_inp, x, input_channels, depth)
          IN /\ grad_arg1_inp = JacobianT(in1, grad, arg1_inp)
             /\ grad_arg2_inp = JacobianT(in2, grad, arg2_inp)

C8_Witness ==
    /\ pc = "combine_backward_done"
    /\ input_channels = 2
    /\ depth = 3
    /\ arg1_inp = Ramp(14)
    /\ arg2_inp = Zigzag(14)
    /\ grad = Unit(14, 9)
    /\ grad_arg1_inp # grad
    /\ grad_arg2_inp # grad

(***************************************************************************)
(* SpecBackward: signature_forward on the CPU followed by                  *)
(* signature_backward on what it returned, for every combination of flags  *)
(***************************************************************************)
MaxBackwardStream == 3

\* gradients on a signature of width w; a stream has a different row per index
GradRow(w, kind, s) ==
    [i \in 1..w |->
        Int2Rat(IF kind = 1 THEN i + s ELSE (((i + s) * (i + s)) % 5) - 2)]

\* a stream gradient that is zero at every stream index except the last
LastOnly(w, rows) ==
    [s \in 1..rows |-> IF s = rows THEN GradRow(w, 2, 0) ELSE VZero(w)]

GradSignatures(w, rows, is_stream) ==
    {IF is_stream THEN [s \in 1..rows |-> GradRow(w, kind, s)] ELSE GradRow(w, kind, 0) :
         kind \in 1..2}
        \cup (IF is_stream THEN {LastOnly(w, rows)} ELSE {})

\* clone_at altered: the views are not cloned before initial_value is recovered
clone_at_never_recover(site, is_stream) ==
    CASE site = "grad" -> TRUE
      [] site = "scratch" -> ~is_stream
      [] site = "recover" -> FALSE

\* Lines 499, 524 and 550-556: whether the buffer is a clone at each of the three
\* places: grad_signature_at_stream always, the rolled-back signature when stream is
\* false, and the views of the saved signature before initial_value is recovered
\* when stream is true
clone_at(site, is_stream) ==
    CASE site = "grad" -> TRUE
      [] site = "scratch" -> ~is_stream
      [] site = "recover" -> is_stream

\* an in-place write of value to a buffer that views slice number slice of the
\* caller's tensor (0: the buffer is a clone and the caller's tensor is not touched)
write_through(caller, slice, value, is_stream) ==
    IF slice = 0 THEN caller
    ELSE IF is_stream THEN [caller EXCEPT ![slice] = value]
    ELSE value

\* Lines 467-526: the gradient on the output is drawn here
BackwardEnter ==
    /\ pc = "done"
    /\ ret = "returned"
    /\ grad_signature' \in GradSignatures(output_channel_size, Len(path_increments), stream)
    /\ grad_signature_at_stream' =
          IF stream THEN grad_signature'[Len(path_increments)] ELSE grad_signature'
    /\ signature_at_stream' =
          IF stream
          THEN IF Len(path_increments) < 2 THEN signature[1] ELSE <<>>
          ELSE signature
    /\ borrowed' =
          [grad |-> IF clone_at("grad", stream) THEN 0
                    ELSE IF stream THEN Len(path_increments) ELSE 1,
           at_stream |-> IF stream THEN (IF Len(path_increments) < 2 THEN 1 ELSE 0)
                         ELSE IF clone_at("scratch", stream) THEN 0 ELSE 1]
    /\ grad_path_increments' =
          [s \in 1..Len(path_increments) |-> empty(Len(path_increments[1]))]
    /\ stream_index' = Len(path_increments) - 1
    /\ pc' = "backward_loop"
    /\ UNCHANGED <<args, path_increments, signature, stream_threads, batch_threads, parallel_vars, ret,
                   layout_vars, combine_vars, grad_path, grad_basepoint_value,
                   grad_initial_value,
                   replay_vars>>

\* BackwardStep altered: with stream = false the scratch is not rolled back
BackwardStep_no_rollback ==
    /\ pc = "backward_loop"
    /\ stream_index >= 1
    /\ LET c == Len(path_increments[1])
           reciprocals == make_reciprocals(depth)
           next == path_increments[stream_index + 1]
           at_stream ==
               IF stream THEN signature[stream_index]
               ELSE signature_at_stream
           back == mult_fused_restricted_exp_backward(
                       grad_path_increments[stream_index + 1],
                       ByTerm(grad_signature_at_stream, c, depth), next,
                       ByTerm(at_stream, c, depth), inverse, reciprocals)
           stored == StoreByTerm(grad_signature_at_stream, back[2], c, depth)
       IN /\ signature_at_stream' = at_stream
          /\ grad_path_increments' =
                [grad_path_increments EXCEPT ![stream_index + 1] = back[1]]
          /\ grad_signature_at_stream' =
                IF stream THEN VAdd(stored, grad_signature[stream_index]) ELSE stored
          /\ borrowed' = IF stream THEN [borrowed EXCEPT !.at_stream = stream_index]
                         ELSE borrowed
          /\ signature' = IF stream THEN signature
                          ELSE write_through(signature, borrowed.at_stream, at_stream,
                                             stream)
    /\ grad_signature' = write_through(grad_signature, borrowed.grad,
                                       grad_signature_at_stream', stream)
    /\ stream_index' = stream_index - 1
    /\ UNCHANGED <<args, pc, path_increments, stream_threads, batch_threads, parallel_vars,
                   ret, layout_vars, combine_vars, grad_path, grad_basepoint_value,
                   grad_initial_value,
                   replay_vars>>

\* BackwardStep altered: with stream = true the slice grad_signature[stream_index - 1]
\* is added before the fused backward of increment stream_index
BackwardStep_add_first ==
    /\ pc = "backward_loop"
    /\ stream_index >= 1
    /\ LET c == Len(path_increments[1])
           reciprocals == make_reciprocals(depth)
           next == path_increments[stream_index + 1]
           at_stream ==
               IF stream THEN signature[stream_index]
               ELSE StoreByTerm(signature_at_stream,
                                mult_fused_restricted_exp(
                                    VNeg(next), ByTerm(signature_at_stream, c, depth),
                                    inverse, reciprocals),
                                c, depth)
           summed == IF stream
                     THEN VAdd(grad_signature_at_stream, grad_signature[stream_index])
                     ELSE grad_signature_at_stream
           back == mult_fused_restricted_exp_backward(
                       grad_path_increments[stream_index + 1],
                       ByTerm(summed, c, depth), next,
                       ByTerm(at_stream, c, depth), inverse, reciprocals)
       IN /\ signature_at_stream' = at_stream
          /\ grad_path_increments' =
                [grad_path_increments EXCEPT ![stream_index + 1] = back[1]]
          /\ grad_signature_at_stream' = StoreByTerm(summed, back[2], c, depth)
          /\ borrowed' = IF stream THEN [borrowed EXCEPT !.at_stream = stream_index]
                         ELSE borrowed
          /\ signature' = IF stream THEN signature
                          ELSE write_through(signature, borrowed.at_stream, at_stream,
                                             stream)
    /\ grad_signature' = write_through(grad_signature, borrowed.grad,
                                       grad_signature_at_stream', stream)
    /\ stream_index' = stream_index - 1
    /\ UNCHANGED <<args, pc, path_increments, stream_threads, batch_threads, parallel_vars,
                   ret, layout_vars, combine_vars, grad_path, grad_basepoint_value,
                   grad_initial_value,
                   replay_vars>>

\* Lines 528-549: one iteration of the descending stream loop
BackwardStep ==
    /\ pc = "backward_loop"
    /\ stream_index >= 1
    /\ LET c == Len(path_increments[1])
           reciprocals == make_reciprocals(depth)
           next == path_increments[stream_index + 1]
           at_stream ==
               IF stream THEN signature[stream_index]
               ELSE StoreByTerm(signature_at_stream,
                                mult_fused_restricted_exp(
                                    VNeg(next), ByTerm(signature_at_stream, c, depth),
                                    inverse, reciprocals),
                                c, depth)
           back == mult_fused_restricted_exp_backward(
                       grad_path_increments[stream_index + 1],
                       ByTerm(grad_signature_at_stream, c, depth), next,
                       ByTerm(at_stream, c, depth), inverse, reciprocals)
           stored == StoreByTerm(grad_signature_at_stream, back[2], c, depth)
       IN /\ signature_at_stream' = at_stream
          /\ grad_path_increments' =
                [grad_path_increments EXCEPT ![stream_index + 1] = back[1]]
          /\ grad_signature_at_stream' =
                IF stream THEN VAdd(stored, grad_signature[stream_index]) ELSE stored
          /\ borrowed' = IF stream THEN [borrowed EXCEPT !.at_stream = stream_index]
                         ELSE borrowed
          /\ signature' = IF stream THEN signature
                          ELSE write_through(signature, borrowed.at_stream, at_stream,
                                             stream)
    /\ grad_signature' = write_through(grad_signature, borrowed.grad,
                                       grad_signature_at_stream', stream)
    /\ stream_index' = stream_index - 1
    /\ UNCHANGED <<args, pc, path_increments, stream_threads, batch_threads, parallel_vars,
                   ret, layout_vars, combine_vars, grad_path, grad_basepoint_value,
                   grad_initial_value,
                   replay_vars>>

\* Lines 551-571: the first increment
BackwardFirst ==
    /\ pc = "backward_loop"
    /\ stream_index < 1
    /\ LET c == Len(path_increments[1])
           reciprocals == make_reciprocals(depth)
           next == path_increments[1]
           recovered ==
               StoreByTerm(signature_at_stream,
                           mult_fused_restricted_exp(
                               VNeg(next), ByTerm(signature_at_stream, c, depth),
                               inverse, reciprocals),
                           c, depth)
           back == IF initial
                   THEN mult_fused_restricted_exp_backward(
                            grad_path_increments[1],
                            ByTerm(grad_signature_at_stream, c, depth), next,
                            ByTerm(recovered, c, depth), inverse, reciprocals)
                   ELSE restricted_exp_backward(
                            grad_path_increments[1],
                            ByTerm(grad_signature_at_stream, c, depth), next,
                            ByTerm(signature_at_stream, c, depth), reciprocals)
       IN /\ signature_at_stream' = IF initial THEN recovered ELSE signature_at_stream
          /\ borrowed' = IF initial /\ clone_at("recover", stream)
                         THEN [borrowed EXCEPT !.at_stream = 0]
                         ELSE borrowed
          /\ signature' = IF initial
                          THEN write_through(signature, borrowed'.at_stream, recovered,
                                             stream)
                          ELSE signature
          /\ grad_path_increments' = [grad_path_increments EXCEPT ![1] = back[1]]
          /\ grad_signature_at_stream' =
                StoreByTerm(grad_signature_at_stream, back[2], c, depth)
    /\ grad_signature' = write_through(grad_signature, borrowed.grad,
                                       grad_signature_at_stream', stream)
    /\ pc' = "backward_increments"
    /\ UNCHANGED <<args, path_increments, stream_index, stream_threads, batch_threads,
                   parallel_vars, ret, layout_vars, combine_vars, grad_path,
                   grad_basepoint_value, grad_initial_value,
                   replay_vars>>

\* Lines 574-583
BackwardReturn ==
    /\ pc = "backward_increments"
    /\ LET back == compute_path_increments_backward(grad_path_increments, basepoint,
                                                    inverse)
       IN /\ grad_path' = back[1]
          /\ grad_basepoint_value' = back[2]
    /\ grad_initial_value' = grad_signature_at_stream
    /\ pc' = "backward_done"
    /\ UNCHANGED <<args, path_increments, signature, stream_index, stream_threads, batch_threads,
                   parallel_vars, ret, layout_vars, combine_vars, grad_signature,
                   grad_signature_at_stream, signature_at_stream, borrowed, replay_vars,
                   grad_path_increments>>

\* a path of n points with c channels whose increments are all nonzero
BackwardPath(n, c) ==
    [s \in 1..n |-> [ch \in 1..c |-> Int2Rat(((s * s * ch + s) % 5) - 2)]]

BackwardCall ==
    /\ \E c \in Channels :
          /\ basepoint \in BOOLEAN
          /\ depth \in 1..MaxDepth
          /\ initial \in BOOLEAN
          /\ \E n \in (IF basepoint THEN 1 ELSE 2)..MaxBackwardStream :
                path = Tensor(<<n, 1, c>>, "float64", "cpu", BackwardPath(n, c))
          /\ basepoint_value =
                IF basepoint
                THEN Tensor(<<1, c>>, "float64", "cpu", [ch \in 1..c |-> Int2Rat(ch)])
                ELSE NoTensor
          /\ initial_value =
                IF initial
                THEN Tensor(<<1, signature_channels(c, depth)>>, "float64", "cpu",
                            Zigzag(signature_channels(c, depth)))
                ELSE NoTensor
    /\ stream \in BOOLEAN
    /\ inverse \in BOOLEAN
    /\ omp_max_threads = MaxThreads
    /\ max_parallelism = MaxThreads

InitBackward == BackwardCall /\ Idle

NextBackward ==
    \/ CheckArgs
    \/ ComputeIncrements
    \/ FirstTerm
    \/ signature_forward_inner_cpu
    \/ Return
    \/ BackwardEnter
    \/ BackwardStep
    \/ BackwardFirst
    \/ BackwardReturn

SpecBackward == InitBackward /\ [][NextBackward]_vars

(***************************************************************************)
(* Properties of the forward pass                                          *)
(***************************************************************************)
Reverse(seq) == [i \in 1..Len(seq) |-> seq[Len(seq) + 1 - i]]

on_cuda == is_cuda(path)

\* the call returned a stream = false signature
Finished == pc = "done" /\ ret = "returned"

\* a signature whose depth-2 term is not symmetric: the path encloses area
Asymmetric(row) ==
    /\ input_channel_size = 2
    /\ depth >= 2
    /\ ByTerm(row, 2, depth)[2][2] # ByTerm(row, 2, depth)[2][3]

\* C1: parallelism invariance.  With stream = false and inverse = false, whatever the
\* number of stream threads chosen and whatever the number of threads the runtime
\* grants, the chunked driver (first term, one private signature per chunk, serial
\* combine of the used chunks in ascending order) returns the signature the serial
\* driver returns on the same path.
C1_ParallelInvariance ==
    (Finished /\ ~stream /\ ~inverse) =>
        signature = signature_serial(path.data, depth, basepoint, basepoint_value.data,
                                     FALSE, initial, initial_value.data, FALSE)

C1_Witness ==
    /\ Finished /\ ~stream /\ ~inverse
    /\ stream_threads = MaxThreads
    /\ num_threads = MaxThreads
    /\ \A t \in 1..MaxThreads : omp_used[t]
    /\ depth = MaxDepth
    /\ Asymmetric(signature)

\* C2: Chen's identity.  The signature returned for a path of N >= 3 points (no
\* basepoint, no inverse, no initial, stream = false) equals, for every split index
\* m in 1..N-2, signature_combine_forward of the signatures of path[:m+1] and path[m:].
C2_Chen ==
    (Finished /\ ~stream /\ ~inverse /\ ~basepoint /\ ~initial) =>
        \A m \in 1..(Len(path.data) - 2) :
            signature =
                signature_combine_forward(
                    signature_serial(SubSeq(path.data, 1, m + 1), depth, FALSE, <<>>,
                                     FALSE, FALSE, <<>>, on_cuda),
                    signature_serial(SubSeq(path.data, m + 1, Len(path.data)), depth,
                                     FALSE, <<>>, FALSE, FALSE, <<>>, on_cuda),
                    input_channel_size, depth)

C2_Witness ==
    /\ Finished /\ ~stream /\ ~inverse /\ ~basepoint /\ ~initial
    /\ Len(path.data) = MaxStream
    /\ depth = MaxDepth
    /\ Asymmetric(signature)

\* a slice of the stream output that has been written
Written(row) == \A w \in 1..Len(row) : row[w] # Uninit

\* C3: stream prefix consistency.  With stream = true and no basepoint, when the
\* driver finishes, slice s of the output equals the stream = false signature of
\* the prefix path[:s+2] for every s in [0, S) (so the last slice is the signature
\* of the whole path), and no step changes a slice that was already written.
C3_StreamPrefix ==
    [][(stream /\ ~basepoint /\ pc \in {"inner", "inner_cpu"}) =>
          /\ \A s \in 1..Len(signature) :
                Written(signature[s]) => signature'[s] = signature[s]
          /\ pc' = "done" =>
                /\ Len(signature') = Len(path.data) - 1
                /\ \A s \in 1..Len(signature') :
                      signature'[s] =
                          signature_serial(SubSeq(path.data, 1, s + 1), depth, FALSE,
                                           <<>>, inverse, initial, initial_value.data,
                                           on_cuda)]_vars

C3_Witness ==
    /\ Finished /\ stream /\ ~basepoint
    /\ Len(signature) = MaxStream - 1
    /\ depth = MaxDepth
    /\ Asymmetric(signature[2])
    /\ signature[2] # signature[3]

\* C4: inverse property.  The signature returned with inverse = true (stream = false,
\* no basepoint, no initial) equals the inverse = false signature of the path with
\* its points in reverse order along the stream axis.
C4_Inverse ==
    (Finished /\ inverse /\ ~stream /\ ~basepoint /\ ~initial) =>
        signature = signature_serial(Reverse(path.data), depth, FALSE, <<>>, FALSE,
                                     FALSE, <<>>, on_cuda)

C4_Witness ==
    /\ Finished /\ inverse /\ ~stream /\ ~basepoint /\ ~initial
    /\ Len(path.data) >= 3
    /\ depth = MaxDepth
    /\ Asymmetric(signature)

\* The whole forward pass with stream = true, as one function: all the slices
RECURSIVE stream_loop(_, _, _, _, _, _)
stream_loop(rows, increments, inv, c, d, cuda) ==
    IF Len(rows) >= Len(increments) THEN rows
    ELSE stream_loop(Append(rows, fused_step(rows[Len(rows)], increments[Len(rows) + 1],
                                             inv, c, d, cuda)),
                     increments, inv, c, d, cuda)

signature_stream(path_data, d, bp, bp_data, inv, ini, ini_data, cuda) ==
    LET increments == compute_path_increments(path_data, bp, bp_data, inv)
        c == Len(path_data[1])
    IN stream_loop(<<first_term(increments[1], inv, ini, ini_data, c, d)>>,
                   increments, inv, c, d, cuda)

\* C5: basepoint equivalence.  A call on path[1:] with basepoint_value = path[0]
\* returns what the call on the whole path without a basepoint returns, for both
\* values of stream and of inverse.  Here the state holds path[1:] and path[0].
C5_Basepoint ==
    (Finished /\ basepoint /\ ~initial) =>
        LET whole == <<basepoint_value.data>> \o path.data
        IN signature =
              IF stream
              THEN signature_stream(whole, depth, FALSE, <<>>, inverse, FALSE, <<>>,
                                    on_cuda)
              ELSE signature_serial(whole, depth, FALSE, <<>>, inverse, FALSE, <<>>,
                                    on_cuda)

C5_Witness ==
    /\ Finished /\ basepoint /\ ~initial /\ stream /\ inverse
    /\ Len(path.data) = MaxStream - 1
    /\ depth = MaxDepth
    /\ basepoint_value.data # path.data[1]
    /\ Asymmetric(signature[Len(signature)])

\* the two-point paths that end at the point p
PathsEndingAt(p) == {<<VSub(p, x), p>> : x \in Points(Len(p))}

\* C6: initial composition.  When initial_value is the signature of a path1 that ends
\* at path2[0], the call on path2 with that initial (inverse = false, stream = false)
\* returns the signature of concat(path1, path2).
C6_Initial ==
    (Finished /\ initial /\ ~inverse /\ ~stream /\ ~basepoint) =>
        \A path1 \in PathsEndingAt(path.data[1]) :
            initial_value.data =
                signature_serial(path1, depth, FALSE, <<>>, FALSE, FALSE, <<>>, on_cuda)
            => signature =
                  signature_serial(path1 \o path.data, depth, FALSE, <<>>, FALSE, FALSE,
                                   <<>>, on_cuda)

C6_Witness ==
    /\ Finished /\ initial /\ ~inverse /\ ~stream /\ ~basepoint
    /\ Len(path.data) = MaxStream - 1
    /\ depth = MaxDepth
    /\ Asymmetric(signature)
    /\ \E path1 \in PathsEndingAt(path.data[1]) :
          /\ path1[1] # path1[2]
          /\ initial_value.data =
                signature_serial(path1, depth, FALSE, <<>>, FALSE, FALSE, <<>>, on_cuda)

(***************************************************************************)
(* Properties of the backward pass                                         *)
(***************************************************************************)
\* the points of a path as one vector, and back
Flat(rows) ==
    LET c == Len(rows[1])
    IN [i \in 1..(Len(rows) * c) |-> rows[((i - 1) \div c) + 1][((i - 1) % c) + 1]]

Rows(flat, c) ==
    [s \in 1..(Len(flat) \div c) |-> [ch \in 1..c |-> flat[(s - 1) * c + ch]]]

\* what signature_forward returns for the call's flags on other tensor contents
ForwardValue(path_data, bp_data, ini_data) ==
    IF stream
    THEN signature_stream(path_data, depth, basepoint, bp_data, inverse, initial,
                          ini_data, FALSE)
    ELSE signature_serial(path_data, depth, basepoint, bp_data, inverse, initial,
                          ini_data, FALSE)

\* <grad_signature, value>, summed over the stream axis when there is one
Pairing(value) ==
    IF stream
    THEN RSum([s \in 1..Len(value) |-> Dot(grad_signature[s], value[s])], 1)
    ELSE Dot(grad_signature, value)

\* d f / d x_i at x by the five-point stencil, exact when f has degree <= 4 in x_i
FivePoint(f(_), x, i) ==
    LET e == Unit(Len(x), i)
        e2 == VScale(e, Int2Rat(2))
    IN RMul(Rat(1, 12),
            RAdd(RSub(f(VSub(x, e2)), f(VAdd(x, e2))),
                 RMul(Int2Rat(8), RSub(f(VAdd(x, e)), f(VSub(x, e))))))

Gradient(f(_), x) == [i \in 1..Len(x) |-> FivePoint(f, x, i)]

\* the transposed Jacobian of signature_forward applied to grad_signature, by argument
ExpectedGradPath ==
    LET f(x) == Pairing(ForwardValue(Rows(x, input_channel_size), basepoint_value.data,
                                     initial_value.data))
    IN Gradient(f, Flat(path.data))

ExpectedGradBasepoint ==
    LET f(x) == Pairing(ForwardValue(path.data, x, initial_value.data))
    IN Gradient(f, basepoint_value.data)

ExpectedGradInitial ==
    LET f(x) == Pairing(ForwardValue(path.data, basepoint_value.data, x))
    IN Gradient(f, initial_value.data)

\* C7 as stated: for every flag combination the returned triple is the transposed
\* Jacobian of signature_forward in (path, basepoint_value, initial_value) applied to
\* grad_signature.  The forward does not read initial_value when initial is not set,
\* so its Jacobian in it is zero.
C7_GradientAllFlags ==
    pc = "backward_done" =>
        /\ Flat(grad_path) = ExpectedGradPath
        /\ grad_basepoint_value = ExpectedGradBasepoint
        /\ IF initial
           THEN grad_initial_value = ExpectedGradInitial
           ELSE \A i \in DOMAIN grad_initial_value : grad_initial_value[i] = Zero

\* C7: grad_path is the transposed Jacobian in path applied to grad_signature for
\* every flag combination; grad_basepoint_value is that in basepoint_value when
\* basepoint is set and empty otherwise; grad_initial_value is that in initial_value
\* when initial is set.  When initial is not set the third tensor is the working
\* gradient buffer of the signature's width, which is not a gradient of the forward.
C7_Gradient ==
    pc = "backward_done" =>
        /\ Flat(grad_path) = ExpectedGradPath
        /\ grad_basepoint_value = ExpectedGradBasepoint
        /\ ~basepoint => grad_basepoint_value = <<>>
        /\ initial => grad_initial_value = ExpectedGradInitial
        /\ ~initial => /\ grad_initial_value = grad_signature_at_stream
                       /\ Len(grad_initial_value) = output_channel_size

C7_Witness ==
    /\ pc = "backward_done"
    /\ input_channel_size = 2
    /\ depth = 3
    /\ stream /\ basepoint /\ inverse /\ initial
    /\ Len(path_increments) = 3
    /\ Flat(grad_path) = ExpectedGradPath
    /\ \E i \in 1..Len(grad_initial_value) : grad_initial_value[i] # Zero

(***************************************************************************)
(* SpecExp: calls on a path of two points, the origin and x, so that the   *)
(* returned signature is the restricted exponential of the one increment x *)
(***************************************************************************)
MaxExpChannels == 3

ExpCoordinates == {-1, 0, 1, 2}

ExpCall ==
    /\ \E c \in 1..MaxExpChannels :
          path \in {Tensor(<<2, 1, c>>, "float64", "cpu", <<[ch \in 1..c |-> Zero], x>>) :
                        x \in [1..c -> {Int2Rat(v) : v \in ExpCoordinates}]}
    /\ depth \in 1..MaxDepth
    /\ stream = FALSE /\ basepoint = FALSE /\ inverse = FALSE /\ initial = FALSE
    /\ basepoint_value = NoTensor /\ initial_value = NoTensor
    /\ omp_max_threads = MaxThreads
    /\ max_parallelism = MaxThreads

InitExp == ExpCall /\ Idle

NextExp == CheckArgs \/ ComputeIncrements \/ FirstTerm \/ Return

SpecExp == InitExp /\ [][NextExp]_vars

RECURSIVE Factorial(_)
Factorial(k) == IF k <= 1 THEN 1 ELSE k * Factorial(k - 1)

\* entry number index0 (0-based, row-major) of the k-fold tensor power of x: the
\* product of the coordinates of x that the k base-|x| digits of index0 select
RECURSIVE PowerEntry(_, _, _)
PowerEntry(x, index0, k) ==
    IF k = 0 THEN Int2Rat(1)
    ELSE RMul(x[(index0 % Len(x)) + 1], PowerEntry(x, index0 \div Len(x), k - 1))

\* C11: restricted_exp writes out[0] = x and out[k] = (out[k-1] (x) x) * r[k-1], so
\* out[k] is the (k+1)-fold tensor power of x divided by (k+1)!; the signature of a
\* path with the single increment x (no initial) therefore has the depth-k term
\* x^(tensor k) / k!, and C = 1, x = 2, D = 3 gives [2, 2, 4/3].
C11_RestrictedExp ==
    pc \in {"inner_cpu", "done"} =>
        LET x == path_increments[1]
            terms == ByTerm(signature, input_channel_size, depth)
            r == make_reciprocals(depth)
        IN /\ Len(terms) = depth
           /\ terms[1] = x
           /\ \A k \in 1..(depth - 1) :
                 terms[k + 1] = VScale(Broadcast(terms[k], x), r[k])
           /\ \A k \in 1..depth :
                 /\ Len(terms[k]) = Power(input_channel_size, k)
                 /\ \A i \in 1..Len(terms[k]) :
                       terms[k][i] = RMul(PowerEntry(x, i - 1, k), Rat(1, Factorial(k)))
           /\ (x = <<Int2Rat(2)>> /\ depth = 3) =>
                 signature = <<Int2Rat(2), Int2Rat(2), Rat(4, 3)>>

C11_Witness ==
    /\ Finished
    /\ input_channel_size = 1
    /\ depth = 3
    /\ path_increments = <<(<<Int2Rat(2)>>)>>
    /\ signature = <<(<<2, 1>>), (<<2, 1>>), (<<4, 3>>)>>

(***************************************************************************)
(* SpecFused: calls with an initial value, on the device path, whose path  *)
(* goes from the origin to x and back.  The first term is computed by      *)
(* mult_fused_restricted_exp on the copy of initial_value, one iteration   *)
(* of its depth loop per step; the stream loop then applies the kernel     *)
(* with the opposite increment.                                            *)
(***************************************************************************)
\* Lines 346-347: first_term.copy_(initial_value), and the kernel's entry
FusedEnter ==
    /\ pc = "first_term"
    /\ initial
    /\ signature' = IF stream THEN [signature EXCEPT ![1] = initial_value.data]
                    ELSE initial_value.data
    /\ depth_index' = depth - 1
    /\ pc' = "fused"
    /\ UNCHANGED <<args, path_increments, stream_index, stream_threads, batch_threads, parallel_vars,
                   ret, layout_vars, backward_vars, arg1_inp, arg2_inp, grad,
                   input_channels, grad_arg1_inp, grad_arg2_inp, combined>>

\* tensor_algebra_ops.cpp lines 141-171: one iteration of the descending depth loop
FusedDepth ==
    /\ pc = "fused"
    /\ depth_index >= 1
    /\ LET row == IF stream THEN signature[1] ELSE signature
           prev == ByTerm(row, input_channel_size, depth)
           reciprocals == make_reciprocals(depth)
           next_divided == [i \in 1..Len(reciprocals) |->
                               VScale(path_increments[1], reciprocals[i])]
           scratch == fused_scratch(VAdd(prev[1], next_divided[depth_index]), 1,
                                    depth_index, prev, next_divided, inverse)
           prod == IF inverse THEN Broadcast(path_increments[1], scratch)
                              ELSE Broadcast(scratch, path_increments[1])
           stored == StoreByTerm(row,
                                 [prev EXCEPT ![depth_index + 1] = VAdd(@, prod)],
                                 input_channel_size, depth)
       IN signature' = IF stream THEN [signature EXCEPT ![1] = stored] ELSE stored
    /\ depth_index' = depth_index - 1
    /\ UNCHANGED <<args, pc, path_increments, stream_index, stream_threads, batch_threads,
                   parallel_vars, ret, layout_vars, backward_vars, arg1_inp, arg2_inp,
                   grad, input_channels, grad_arg1_inp, grad_arg2_inp,
                   combined>>

\* tensor_algebra_ops.cpp line 173, then the choice of the driver (lines 359-405)
FusedExit ==
    /\ pc = "fused"
    /\ depth_index < 1
    /\ LET row == IF stream THEN signature[1] ELSE signature
           prev == ByTerm(row, input_channel_size, depth)
           stored == StoreByTerm(row,
                                 [prev EXCEPT ![1] = VAdd(@, path_increments[1])],
                                 input_channel_size, depth)
       IN signature' = IF stream THEN [signature EXCEPT ![1] = stored] ELSE stored
    /\ stream_index' = 1
    /\ IF is_cuda(path)
       THEN /\ pc' = "inner"
            /\ stream_threads' = stream_threads
            /\ batch_threads' = batch_threads
       ELSE /\ stream_threads' =
                   choose_stream_threads(batch_size, input_stream_size,
                                         output_stream_size, output_channel_size,
                                         stream, omp_max_threads, max_parallelism)
            /\ batch_threads' =
                   choose_batch_threads(batch_size, output_stream_size,
                                        output_channel_size, omp_max_threads)
            /\ pc' = IF stream_threads' = 1 THEN "inner_cpu" ELSE "parallel"
    /\ UNCHANGED <<kernel_vars, args, path_increments, parallel_vars, ret>>

\* initial values that are arbitrary tensors of the signature's width
FusedCall ==
    /\ \E c \in Channels :
          /\ depth \in 1..MaxDepth
          /\ path \in {Tensor(<<3, 1, c>>, "float64", "cuda",
                              <<[ch \in 1..c |-> Zero], x, [ch \in 1..c |-> Zero]>>) :
                           x \in [1..c -> {Int2Rat(v) : v \in ExpCoordinates}]}
          /\ initial_value \in
                {Tensor(<<1, signature_channels(c, depth)>>, "float64", "cuda", data) :
                     data \in {Ramp(signature_channels(c, depth)),
                               Zigzag(signature_channels(c, depth)),
                               Bits(signature_channels(c, depth))}}
    /\ initial = TRUE
    /\ inverse \in BOOLEAN
    /\ stream = FALSE /\ basepoint = FALSE /\ basepoint_value = NoTensor
    /\ omp_max_threads = MaxThreads
    /\ max_parallelism = MaxThreads

InitFused == FusedCall /\ Idle

NextFused ==
    \/ CheckArgs
    \/ ComputeIncrements
    \/ FusedEnter
    \/ FusedDepth
    \/ FusedExit
    \/ signature_forward_inner
    \/ Return

SpecFused == InitFused /\ [][NextFused]_vars

\* C12: with inverse = false mult_fused_restricted_exp leaves prev = old_prev (x)
\* exp(next) and with inverse = true prev = exp(next) (x) old_prev, the product being
\* mult and exp(next) the output of restricted_exp; while depth d is being updated
\* every prev[j] with j <= d still has the value it had before the call.
C12_FusedEquivalence ==
    LET old_prev == ByTerm(initial_value.data, input_channel_size, depth)
        exp_next == restricted_exp(path_increments[1], make_reciprocals(depth))
    IN /\ pc = "fused" =>
             \A j \in 0..depth_index :
                 ByTerm(signature, input_channel_size, depth)[j + 1] = old_prev[j + 1]
       /\ (pc = "inner" /\ stream_index = 1) =>
             ByTerm(signature, input_channel_size, depth) =
                 IF inverse THEN mult(exp_next, old_prev) ELSE mult(old_prev, exp_next)

C12_Witness ==
    /\ pc = "inner" /\ stream_index = 1
    /\ inverse
    /\ input_channel_size = 2
    /\ depth = 3
    /\ initial_value.data = Zigzag(14)
    /\ path_increments[1] = <<Int2Rat(1), Int2Rat(-2)>>
    /\ ByTerm(signature, 2, 3) #
           mult(ByTerm(initial_value.data, 2, 3),
                restricted_exp(path_increments[1], make_reciprocals(3)))

\* C13: applying mult_fused_restricted_exp with next and then with -next, under the
\* same inverse flag, restores prev at every depth: the call on the path that goes
\* to x and back returns the initial value it started from, exactly.
C13_RollbackRoundTrip ==
    (Finished /\ path_increments[2] = VNeg(path_increments[1])) =>
        /\ signature = initial_value.data
        /\ \A d \in 1..depth :
              ByTerm(signature, input_channel_size, depth)[d] =
                  ByTerm(initial_value.data, input_channel_size, depth)[d]

C13_Witness ==
    /\ Finished
    /\ inverse
    /\ input_channel_size = 2
    /\ depth = 3
    /\ path_increments = <<(<<Int2Rat(1), Int2Rat(-2)>>), (<<Int2Rat(-1), Int2Rat(2)>>)>>
    /\ initial_value.data = Ramp(14)
    /\ signature = Ramp(14)

\* C14: at every iteration of the stream loop of signature_backward the value passed
\* as prev to mult_fused_restricted_exp_backward is the forward signature at the
\* previous stream index, whether it is looked up (stream = true) or obtained by
\* rolling the scratch back with -path_increments[s] (stream = false); so a
\* stream = true call whose grad_signature is zero except at the last stream index
\* returns what the stream = false call on that last gradient returns.
C14_DualModeBackward ==
    LET saved == signature_stream(path.data, depth, basepoint, basepoint_value.data,
                                  inverse, initial, initial_value.data, FALSE)
        size == Len(path_increments)
        returned == <<grad_path, grad_basepoint_value, grad_initial_value>>
    IN /\ (pc = "backward_loop" /\ stream_index < size - 1) =>
             signature_at_stream = saved[stream_index + 1]
       /\ pc = "backward_done" =>
             returned = signature_backward(grad_signature, signature, path_increments,
                                           depth, stream, basepoint, inverse, initial)
       /\ (pc = "backward_done" /\ stream
              /\ grad_signature = LastOnly(output_channel_size, size)) =>
             returned =
                 signature_backward(
                     grad_signature[size],
                     signature_serial(path.data, depth, basepoint, basepoint_value.data,
                                      inverse, initial, initial_value.data, FALSE),
                     path_increments, depth, FALSE, basepoint, inverse, initial)

C14_Witness ==
    /\ pc = "backward_done"
    /\ stream /\ inverse /\ initial
    /\ input_channel_size = 2
    /\ depth = 3
    /\ Len(path_increments) = 3
    /\ grad_signature = LastOnly(14, 3)
    /\ \A s \in 1..Len(grad_path) : \E ch \in 1..2 : grad_path[s][ch] # Zero

(***************************************************************************)
(* SpecMult: signature_combine_forward, with ta_ops::mult run one depth    *)
(* of its descending loop per step on the clone of arg1_inp                *)
(***************************************************************************)
\* tensor_algebra_ops.cpp lines 452-474: the checks, the clone and the views
CombineForwardEnter ==
    /\ pc = "combine_forward"
    /\ IF \/ Len(arg1_inp) # Len(arg2_inp)
          \/ Len(arg1_inp) # signature_channels(input_channels, depth)
       THEN /\ pc' = "error"
            /\ ret' = "invalid_argument"
            /\ UNCHANGED <<combined, depth_index>>
       ELSE /\ combined' = arg1_inp
            /\ depth_index' = depth - 1
            /\ pc' = "combine_forward_loop"
            /\ ret' = ret
    /\ UNCHANGED <<args, path_increments, signature, stream_index, stream_threads, batch_threads,
                   parallel_vars, layout_vars, backward_vars, arg1_inp, arg2_inp,
                   grad, input_channels, grad_arg1_inp, grad_arg2_inp>>

\* tensor_algebra_ops.cpp lines 337-341: one iteration of the loop of mult
CombineForwardStep ==
    /\ pc = "combine_forward_loop"
    /\ depth_index >= 0
    /\ LET arg1 == ByTerm(combined, input_channels, depth)
           arg2 == ByTerm(arg2_inp, input_channels, depth)
           tensor_at_depth ==
               VAdd(mult_inner(arg1[depth_index + 1], arg1, arg2, depth_index, 0),
                    arg2[depth_index + 1])
       IN combined' = StoreByTerm(combined,
                                  [arg1 EXCEPT ![depth_index + 1] = tensor_at_depth],
                                  input_channels, depth)
    /\ depth_index' = depth_index - 1
    /\ UNCHANGED <<args, pc, path_increments, signature, stream_index, stream_threads, batch_threads,
                   parallel_vars, ret, layout_vars, backward_vars, arg1_inp, arg2_inp,
                   grad, input_channels, grad_arg1_inp, grad_arg2_inp>>

\* tensor_algebra_ops.cpp line 477
CombineForwardReturn ==
    /\ pc = "combine_forward_loop"
    /\ depth_index < 0
    /\ pc' = "combine_forward_done"
    /\ UNCHANGED <<args, path_increments, signature, stream_index, stream_threads, batch_threads,
                   parallel_vars, ret, kernel_vars>>

\* truncated elements of width w, the all-zero one among them
Elements(w) == {VZero(w), Ramp(w), Zigzag(w), Bits(w)}

MultCall ==
    /\ input_channels \in Channels
    /\ depth \in 1..MaxDepth
    /\ arg1_inp \in Elements(signature_channels(input_channels, depth))
    /\ arg2_inp \in Elements(signature_channels(input_channels, depth))
    /\ grad = <<>>
    /\ grad_arg1_inp = <<>>
    /\ grad_arg2_inp = <<>>
    /\ depth_index = 0
    /\ combined = <<>>

InitMult ==
    /\ NoCall /\ MultCall
    /\ LayoutIdle /\ BackwardIdle /\ DriverIdle
    /\ pc = "combine_forward"

NextMult == CombineForwardEnter \/ CombineForwardStep \/ CombineForwardReturn

SpecMult == InitMult /\ [][NextMult]_vars

\* entry i0 (0-based) of the sum over j + k = d - 1 of left[j] (x) right[k], from j on:
\* the row index into left[j] is i0 \div C^(k+1), the column index into right[k]
\* is i0 % C^(k+1)
RECURSIVE ConvolutionEntry(_, _, _, _, _, _)
ConvolutionEntry(left, right, c, d, j, i0) ==
    IF j > d - 1 THEN Zero
    ELSE LET k == d - 1 - j
         IN RAdd(RMul(left[j + 1][(i0 \div Power(c, k + 1)) + 1],
                      right[k + 1][(i0 % Power(c, k + 1)) + 1]),
                 ConvolutionEntry(left, right, c, d, j + 1, i0))

\* C15: after mult(arg1, arg2), for every depth index d, arg1[d] = old arg1[d] + the
\* sum over j + k = d - 1 of old arg1[j] (x) arg2[k] + arg2[d]; while depth d is being
\* updated no arg1[j] with j <= d has been updated yet, and arg2 is as it was.
C15_InPlaceProduct ==
    LET old == ByTerm(arg1_inp, input_channels, depth)
        arg2 == ByTerm(arg2_inp, input_channels, depth)
        arg1 == ByTerm(combined, input_channels, depth)
    IN /\ pc = "combine_forward_loop" =>
             \A j \in 0..depth_index : arg1[j + 1] = old[j + 1]
       /\ pc = "combine_forward_done" =>
             /\ \A d \in 0..(depth - 1) :
                   \A i \in 1..Len(arg1[d + 1]) :
                       arg1[d + 1][i] =
                           RAdd(RAdd(old[d + 1][i],
                                     ConvolutionEntry(old, arg2, input_channels, d, 0,
                                                      i - 1)),
                                arg2[d + 1][i])
             /\ Len(arg2_inp) = signature_channels(input_channels, depth)
             /\ combined = signature_combine_forward(arg1_inp, arg2_inp, input_channels,
                                                     depth)

C15_Witness ==
    /\ pc = "combine_forward_done"
    /\ input_channels = 2
    /\ depth = 3
    /\ arg1_inp = Ramp(14)
    /\ arg2_inp = Zigzag(14)
    /\ combined # VAdd(arg1_inp, arg2_inp)
    /\ ByTerm(combined, 2, 3)[1] = VAdd(<<Int2Rat(1), Int2Rat(2)>>,
                                        <<Int2Rat(-1), Int2Rat(2)>>)

\* C16: the truncated product is associative, mult(mult(a, b), c) = mult(a, mult(b, c))
\* at every depth; the all-zero element is a two-sided identity; and for C >= 2 and
\* D >= 2 there are elements whose products in the two orders differ.
C16_Associativity ==
    pc = "combine_forward_done" =>
        LET w == signature_channels(input_channels, depth)
            product(x, y) == signature_combine_forward(x, y, input_channels, depth)
        IN /\ \A c \in Elements(w) \cup {combined} :
                 product(combined, c) = product(arg1_inp, product(arg2_inp, c))
           /\ arg2_inp = VZero(w) => combined = arg1_inp
           /\ arg1_inp = VZero(w) => combined = arg2_inp
           /\ product(combined, VZero(w)) = combined
           /\ product(VZero(w), combined) = combined
           /\ (input_channels >= 2 /\ depth >= 2) =>
                 \E x, y \in Elements(w) : product(x, y) # product(y, x)

C16_Witness ==
    /\ pc = "combine_forward_done"
    /\ input_channels = 2
    /\ depth = 2
    /\ arg1_inp = Ramp(6)
    /\ arg2_inp = Bits(6)
    /\ combined # signature_combine_forward(arg2_inp, arg1_inp, 2, 2)
    /\ signature_combine_forward(combined, Zigzag(6), 2, 2) =
           signature_combine_forward(arg1_inp,
                                     signature_combine_forward(arg2_inp, Zigzag(6), 2, 2),
                                     2, 2)

(***************************************************************************)
(* SpecChunkInverse: the chunked driver of SpecChunk on calls with         *)
(* inverse = true                                                          *)
(***************************************************************************)
InverseChunkCall ==
    /\ \E c \in Channels :
          path \in {Tensor(<<Len(data), ParallelThreshold, c>>, "float64", "cpu", data) :
                        data \in PathData(MaxStream, c) \cup StairData(LongStream, c)}
    /\ depth \in 1..MaxDepth
    /\ stream = FALSE
    /\ basepoint = FALSE
    /\ basepoint_value = NoTensor
    /\ inverse = TRUE
    /\ initial = FALSE
    /\ initial_value = NoTensor
    /\ omp_max_threads = MaxThreads * ParallelThreshold
    /\ max_parallelism \in 1..MaxThreads

InitChunkInverse == InverseChunkCall /\ Idle

SpecChunkInverse == InitChunkInverse /\ [][NextChunk]_vars

\* the used chunks multiplied onto global by mult in ascending index order from chunk
\* t on: on the right, global (x) chunk_t, or on the left, chunk_t (x) global
RECURSIVE combine_chunks(_, _, _, _, _)
combine_chunks(global, results, used, t, on_left) ==
    IF t > Len(results) THEN global
    ELSE combine_chunks(IF ~used[t] THEN global
                        ELSE IF on_left THEN mult(results[t], global)
                        ELSE mult(global, results[t]),
                        results, used, t + 1, on_left)

\* the region has been joined and the combine loop has not started: signature holds
\* the first term and omp_results the signatures of the chunks
ChunksReady == pc = "combine" /\ stream_index = 0 /\ inverse /\ ~stream

SerialByTerm ==
    ByTerm(signature_serial(path.data, depth, basepoint, basepoint_value.data, inverse,
                            initial, initial_value.data, FALSE),
           input_channel_size, depth)

\* C17 as stated: with inverse = true and stream = false, multiplying the signatures of
\* the used chunks (each computed with inverse = true) onto the first term in
\* ascending chunk index order with the plain product global <- global (x) chunk_t
\* of mult gives the signature the serial driver returns with inverse = true.
C17_PlainCombine ==
    ChunksReady =>
        combine_chunks(ByTerm(signature, input_channel_size, depth), omp_results,
                       omp_used, 1, FALSE) = SerialByTerm

\* C17: with inverse = true and stream = false the signature of the serial driver is
\* obtained from the first term and the signatures of the used chunks, in ascending
\* chunk index order, by multiplying each chunk on the left, global <- chunk_t (x)
\* global; the plain product global (x) chunk_t gives it when C = 1 or D = 1, where
\* the truncated product commutes.
C17_ChunkCombineInverse ==
    ChunksReady =>
        /\ combine_chunks(ByTerm(signature, input_channel_size, depth), omp_results,
                          omp_used, 1, TRUE) = SerialByTerm
        /\ (input_channel_size = 1 \/ depth = 1) =>
              combine_chunks(ByTerm(signature, input_channel_size, depth), omp_results,
                             omp_used, 1, FALSE) = SerialByTerm

C17_Witness ==
    /\ ChunksReady
    /\ input_channel_size = 2
    /\ depth = MaxDepth
    /\ num_threads = MaxThreads
    /\ \A t \in 1..MaxThreads : omp_used[t]
    /\ combine_chunks(ByTerm(signature, input_channel_size, depth), omp_results,
                      omp_used, 1, TRUE) = SerialByTerm
    /\ combine_chunks(ByTerm(signature, input_channel_size, depth), omp_results,
                      omp_used, 1, FALSE) # SerialByTerm

(***************************************************************************)
(* Path increments with a basepoint, on SpecBasepoint                      *)
(***************************************************************************)
\* compute_path_increments has returned into signature_forward
IncrementsComputed == pc \notin {"call", "increments", "error"}

\* point s of the path and the basepoint, indexed from 0 as in the source
PathPoint(s) == path.data[s + 1]

Increment(s) == path_increments[s + 1]

\* C18 as stated: with a basepoint and inverse = false the increment at stream 0 is
\* path[0] - bp and the increment at every stream index s >= 1 is path[s+1] - path[s]
\* (read only where path[s+1] exists); with inverse = true every increment is the
\* negation of that.
C18_IncrementsNextPair ==
    (IncrementsComputed /\ basepoint) =>
        /\ Len(path_increments) = Len(path.data)
        /\ \A s \in 0..(Len(path.data) - 1), i \in 1..input_channel_size :
              LET forward == IF s = 0
                             THEN RSub(PathPoint(0)[i], basepoint_value.data[i])
                             ELSE RSub(PathPoint(s + 1)[i], PathPoint(s)[i])
              IN (s = 0 \/ s + 1 <= Len(path.data) - 1) =>
                    Increment(s)[i] = IF inverse THEN RNeg(forward) ELSE forward

\* C18: with a basepoint bp and inverse = false, compute_path_increments returns
\* S = N increments, path[0] - bp at stream 0 and path[s] - path[s-1] at every
\* stream index s >= 1; with inverse = true every increment is the exact negation of
\* the inverse = false one.
C18_IncrementsBasepoint ==
    (IncrementsComputed /\ basepoint) =>
        /\ Len(path_increments) = Len(path.data)
        /\ output_stream_size = input_stream_size
        /\ \A s \in 0..(Len(path.data) - 1) :
              /\ Len(Increment(s)) = input_channel_size
              /\ \A i \in 1..input_channel_size :
                    LET forward == IF s = 0
                                   THEN RSub(PathPoint(0)[i], basepoint_value.data[i])
                                   ELSE RSub(PathPoint(s)[i], PathPoint(s - 1)[i])
                    IN Increment(s)[i] = IF inverse THEN RNeg(forward) ELSE forward

C18_Witness ==
    /\ pc = "first_term"
    /\ basepoint
    /\ ~inverse
    /\ input_channel_size = 2
    /\ Len(path.data) = 3
    /\ basepoint_value.data = <<Int2Rat(1), Int2Rat(0)>>
    /\ Increment(0) = <<Int2Rat(-1), Int2Rat(1)>>
    /\ Increment(1) = <<Int2Rat(1), Int2Rat(-1)>>
    /\ Increment(2) = <<Int2Rat(0), Int2Rat(1)>>

(***************************************************************************)
(* compute_path_increments_backward as the adjoint of the increments, on   *)
(* SpecBackward                                                            *)
(***************************************************************************)
\* sum over the stream and channel axes of the elementwise product of a and b
StreamDot(a, b) == RSum([s \in 1..Len(a) |-> Dot(a[s], b[s])], 1)

\* C19: in each of the four (basepoint, inverse) cases, for the g handed to
\* compute_path_increments_backward and every path and basepoint,
\* sum(g * increments(path, bp)) = sum(grad_path * path) + sum(grad_basepoint * bp);
\* grad_path has the shape (N, B, C) of the path and grad_basepoint is empty when no
\* basepoint was supplied.
C19_IncrementsAdjoint ==
    pc = "backward_done" =>
        /\ Len(grad_path) = input_stream_size
        /\ \A s \in 1..Len(grad_path) : Len(grad_path[s]) = input_channel_size
        /\ Len(grad_path_increments) = output_stream_size
        /\ IF basepoint
           THEN Len(grad_basepoint_value) = input_channel_size
           ELSE grad_basepoint_value = <<>>
        /\ \A p \in PathData(input_stream_size, input_channel_size),
              bp \in Points(input_channel_size) :
              StreamDot(grad_path_increments,
                        compute_path_increments(p, basepoint, bp, inverse))
                 = RAdd(StreamDot(grad_path, p),
                        IF basepoint THEN Dot(grad_basepoint_value, bp) ELSE Zero)

C19_Witness ==
    /\ pc = "backward_done"
    /\ basepoint
    /\ inverse
    /\ input_stream_size = 3
    /\ input_channel_size = 2
    /\ \A s \in 1..3 : grad_path_increments[s] # VZero(2)
    /\ grad_basepoint_value = grad_path_increments[1]
    /\ grad_path[3] = VNeg(grad_path_increments[3])
    /\ \E p \in PathData(3, 2), bp \in Points(2) :
          /\ StreamDot(grad_path, p) # Zero
          /\ Dot(grad_basepoint_value, bp) # Zero

(***************************************************************************)
(* SpecPartition: the chunked driver on one-channel paths whose increment  *)
(* at stream index i is 3^i, so that the depth-1 term of a signature is    *)
(* the sum of the increments it consumed and tells which they were         *)
(***************************************************************************)
MaxPartitionStream == 8

PowerPath(n) == [s \in 1..n |-> <<Int2Rat((3 ^ (s - 1) - 1) \div 2)>>]

PartitionCall ==
    /\ \E n \in 3..MaxPartitionStream :
          path = Tensor(<<n, ParallelThreshold, 1>>, "float64", "cpu", PowerPath(n))
    /\ depth \in 1..2
    /\ stream = FALSE
    /\ basepoint = FALSE
    /\ basepoint_value = NoTensor
    /\ inverse \in BOOLEAN
    /\ initial = FALSE
    /\ initial_value = NoTensor
    /\ omp_max_threads = MaxThreads * ParallelThreshold
    /\ max_parallelism \in 1..MaxThreads

InitPartition == PartitionCall /\ Idle

SpecPartition == InitPartition /\ [][NextChunk]_vars

\* the stream indices of the chunk of thread t out of n
Chunk(S, t, n) == chunk_start(S, t, n)..(chunk_end(S, t, n) - 1)

\* the reads of increment index i: by the first term (lines 345-357), by the
\* restricted_exp of a chunk (line 432, under start < end) and by the fused kernel of
\* a chunk (lines 436-445, stream_index from start + 1 to end - 1)
Consumers(S, n, i) ==
    (IF i = 0 THEN {<<"first_term", 0>>} ELSE {})
    \cup {<<"restricted_exp", t>> : t \in {u \in 0..(n - 1) :
                 chunk_start(S, u, n) < chunk_end(S, u, n) /\ chunk_start(S, u, n) = i}}
    \cup {<<"fused", t>> : t \in {u \in 0..(n - 1) :
                 chunk_start(S, u, n) < i /\ i < chunk_end(S, u, n)}}

ChunkPartition(S, n) ==
    /\ \A t \in 0..(n - 1) : chunk_start(S, t, n) <= chunk_end(S, t, n)
    /\ \A t, u \in 0..(n - 1) :
          t < u => /\ Chunk(S, t, n) \cap Chunk(S, u, n) = {}
                   /\ chunk_end(S, t, n) <= chunk_start(S, u, n)
    /\ UNION {Chunk(S, t, n) : t \in 0..(n - 1)} = 1..(S - 1)
    /\ \A i \in 0..(S - 1) : Cardinality(Consumers(S, n, i)) = 1

\* the depth-1 term of a signature that consumed exactly the increments of indices
\* from..(to - 1), each once
PowerSum(from, to) ==
    <<Int2Rat((IF inverse THEN -1 ELSE 1) * ((3 ^ to - 3 ^ from) \div 2))>>

\* C20: for every S >= 2 and n >= 1 the chunks [start_t, end_t) of lines 422-423 are
\* pairwise disjoint, ordered by t, and cover exactly [1, S), and every increment
\* index of [0, S) has exactly one consumer; in the parallel region the first term
\* has consumed index 0 and every thread that ran has consumed exactly the indices
\* of its chunk.
C20_ChunkPartition ==
    pc \in {"region", "combine"} =>
        /\ \A S \in 2..MaxPartitionStream, n \in 1..MaxPartitionStream :
              ChunkPartition(S, n)
        /\ ChunkPartition(output_stream_size, num_threads)
        /\ num_threads \in 1..stream_threads
        /\ pc = "region" =>
              ByTerm(signature, input_channel_size, depth)[1] = PowerSum(0, 1)
        /\ \A t \in 0..(stream_threads - 1) :
              LET start == chunk_start(output_stream_size, t, num_threads)
                  end == chunk_end(output_stream_size, t, num_threads)
              IN /\ omp_used[t + 1] <=> (t \in ran /\ start < end)
                 /\ omp_used[t + 1] => omp_results[t + 1][1] = PowerSum(start, end)

C20_Witness ==
    /\ pc = "combine"
    /\ stream_index = 0
    /\ output_stream_size = MaxPartitionStream - 1
    /\ num_threads = MaxThreads
    /\ \A t \in 1..MaxThreads : omp_used[t]
    /\ Chunk(output_stream_size, 0, num_threads) # {}
    /\ Cardinality(Chunk(output_stream_size, 1, num_threads)) >= 2

(***************************************************************************)
(* SpecDispatch: the choice of the driver (lines 359-405) over batch       *)
(* sizes, thread limits, devices and flags on both sides of the threshold  *)
(***************************************************************************)
\* batch sizes: one row, a batch that is large only for the longer paths, and a
\* batch that is always large
DispatchBatches == {1, ParallelThreshold \div 8, ParallelThreshold}

\* omp_get_max_threads() relative to the batch size b
DispatchThreads(b) == {1, 2, b, b + 1, 2 * b + 1, MaxThreads * b}

DispatchCall ==
    /\ \E n \in 2..LongStream, b \in DispatchBatches, device \in {"cpu", "cuda"} :
          /\ path = Tensor(<<n, b, 1>>, "float64", device, PowerPath(n))
          /\ basepoint \in BOOLEAN
          /\ basepoint_value =
                IF basepoint
                THEN Tensor(<<b, 1>>, "float64", device, <<Int2Rat(1)>>)
                ELSE NoTensor
          /\ omp_max_threads \in DispatchThreads(b)
    /\ depth \in 1..2
    /\ stream \in BOOLEAN
    /\ inverse = FALSE
    /\ initial = FALSE
    /\ initial_value = NoTensor
    /\ max_parallelism \in 1..MaxThreads

InitDispatch == DispatchCall /\ Idle

NextDispatch ==
    \/ CheckArgs
    \/ ComputeIncrements
    \/ FirstTerm
    \/ signature_forward_inner
    \/ signature_forward_inner_cpu
    \/ EnterParallel
    \/ \E t \in 0..(MaxThreads - 1) : ChunkThread(t)
    \/ Join
    \/ Combine
    \/ Return

SpecDispatch == InitDispatch /\ [][NextDispatch]_vars

\* the chunked-parallel branch of lines 396-458 has been taken
ChunkedMode == pc \in {"parallel", "region", "combine"}

\* ceil(a / b) for b >= 1
CeilDiv(a, b) == (a \div b) + (IF a % b = 0 THEN 0 ELSE 1)

\* C21 as stated: whenever chunked-parallel mode is used, the number of stream chunks
\* is min(max_threads, (S+1)/3, max_parallelism) with S the number of increments.
C21_ThreadCountOfIncrements ==
    ChunkedMode =>
        stream_threads = Min(Min(omp_max_threads, (output_stream_size + 1) \div 3),
                             max_parallelism)

\* C21: whenever chunked-parallel mode is used, the number of stream chunks is
\* min(ceil(max_threads / B), (N+2)/3, max_parallelism) with integer division, N the
\* number of points of the path (S + 1 without a basepoint, S with one) and B the
\* batch size.
C21_ThreadCount ==
    ChunkedMode =>
        /\ stream_threads = Min(Min(CeilDiv(omp_max_threads, batch_size),
                                    (Len(path.data) + 2) \div 3),
                                max_parallelism)
        /\ Len(path.data) = output_stream_size + (IF basepoint THEN 0 ELSE 1)
        /\ Len(omp_results) \in {0, stream_threads}

C21_Witness ==
    /\ pc = "region"
    /\ stream_threads = 2
    /\ max_parallelism = MaxThreads
    /\ Len(path.data) = 5
    /\ ~basepoint
    /\ batch_size = ParallelThreshold \div 8
    /\ omp_max_threads = MaxThreads * batch_size
    /\ Len(omp_results) = 2

\* the CPU branch of lines 367-395 has chosen stream_threads and batch_threads
ThreadsChosen == stream_threads >= 1

\* C22: thread budget.  For every batch size, stream size, max_threads >= 1 and
\* max_parallelism >= 1, the values chosen by signature_forward satisfy
\* batch_threads * stream_threads <= max_threads.
C22_ThreadBudget ==
    ThreadsChosen => batch_threads * stream_threads <= omp_max_threads

\* a large call where both axes are parallel and the budget is exceeded
C22_Oversubscribed ==
    /\ pc = "region"
    /\ batch_size = ParallelThreshold \div 8
    /\ omp_max_threads = batch_size + 1
    /\ stream_threads = 2
    /\ batch_threads = batch_size

\* the four conditions of the chunked-parallel branch
ChunkedAllowed ==
    /\ ~stream
    /\ ~is_cuda(path)
    /\ batch_size * output_stream_size * output_channel_size >= ParallelThreshold
    /\ max_parallelism > 1

\* a single serial driver is running or has returned
SerialMode == pc \in {"inner", "inner_cpu"} \/ (pc = "done" /\ num_threads = 0)

\* C23: the chunked-parallel branch (stream_threads > 1) is taken only if stream is
\* false, the tensors are on the CPU, B*S*W >= 1392640 and max_parallelism > 1; in
\* every other configuration one serial driver steps through the stream indices
\* 1..S-1 in ascending order, one at a time, and no parallel region is ever entered;
\* stream_threads never exceeds max_parallelism.
C23_ChunkedGating ==
    /\ [](/\ (ChunkedMode \/ stream_threads > 1 \/ num_threads > 0) => ChunkedAllowed
          /\ stream_threads <= max_parallelism
          /\ (~ChunkedAllowed /\ pc \notin {"call", "increments", "first_term", "error"}) =>
                /\ SerialMode
                /\ stream_index \in 1..output_stream_size
                /\ omp_results = <<>>
                /\ pc = "done" => stream_index = output_stream_size)
    /\ [][(pc \in {"inner", "inner_cpu"} /\ pc' = pc) =>
              /\ stream_index' = stream_index + 1
              /\ stream_index \in 1..(output_stream_size - 1)]_vars

C23_Witness ==
    /\ pc = "inner_cpu"
    /\ stream_index = 3
    /\ ~stream
    /\ batch_size = ParallelThreshold
    /\ omp_max_threads = MaxThreads * batch_size
    /\ max_parallelism = 1
    /\ Len(path.data) = LongStream
    /\ stream_threads = 1

(***************************************************************************)
(* SpecRace: the parallel region of lines 415-448 thread by thread and     *)
(* statement by statement, with the memory each statement reads and writes *)
(***************************************************************************)
MaxBatchTeam == 2

\* the batch rows that are followed: more rows than batch threads, so that some
\* batch thread runs several iterations
BatchRows == 0..MaxBatchTeam

\* result_slot altered: every thread assigns element 0
result_slot_first(thread_num) == 0

\* Lines 445-446: the element of omp_results and omp_used a thread assigns
result_slot(thread_num) == thread_num

\* Lines 195-198: the row of every term that iteration batch_index writes
batch_row(batch_index) == batch_index

RaceCall ==
    /\ \E n \in 4..LongStream :
          path = Tensor(<<n, ParallelThreshold, 1>>, "float64", "cpu", PowerPath(n))
    /\ depth \in 1..2
    /\ stream = FALSE
    /\ basepoint = FALSE
    /\ basepoint_value = NoTensor
    /\ inverse = FALSE
    /\ initial = FALSE
    /\ initial_value = NoTensor
    /\ omp_max_threads = MaxThreads * ParallelThreshold
    /\ max_parallelism \in 2..MaxThreads

InitRace == RaceCall /\ Idle

\* Lines 407-416: the result vectors and the team the runtime grants
EnterRegion ==
    /\ pc = "parallel"
    /\ omp_results' = [t \in 1..stream_threads |-> <<>>]
    /\ omp_used' = [t \in 1..stream_threads |-> FALSE]
    /\ \E granted \in 1..stream_threads :
          /\ num_threads' = granted
          /\ chunk_pc' = [t \in 1..granted |-> "begin"]
          /\ chunk_index' = [t \in 1..granted |-> 0]
          /\ omp_signature' = [t \in 1..granted |-> <<>>]
          /\ batch_writes' = [t \in 1..granted |-> <<>>]
    /\ ran' = {}
    /\ pc' = "region"
    /\ UNCHANGED <<kernel_vars, args, path_increments, signature, stream_index,
                   stream_threads, batch_threads, ret>>

\* Lines 422-432: start, end, and the first term of the private chunk signature
ChunkBegin(t) ==
    /\ pc = "region"
    /\ t \in 0..(num_threads - 1)
    /\ chunk_pc[t + 1] = "begin"
    /\ LET start == chunk_start(output_stream_size, t, num_threads)
           end == chunk_end(output_stream_size, t, num_threads)
       IN IF start < end
          THEN /\ omp_signature' =
                     [omp_signature EXCEPT ![t + 1] =
                         StoreByTerm(empty(output_channel_size),
                                     restricted_exp(path_increments[start + 1],
                                                    make_reciprocals(depth)),
                                     input_channel_size, depth)]
               /\ chunk_index' = [chunk_index EXCEPT ![t + 1] = start + 1]
               /\ chunk_pc' = [chunk_pc EXCEPT ![t + 1] = "fused"]
               /\ ran' = ran
          ELSE /\ chunk_pc' = [chunk_pc EXCEPT ![t + 1] = "end"]
               /\ ran' = ran \cup {t}
               /\ UNCHANGED <<omp_signature, chunk_index>>
    /\ UNCHANGED <<kernel_vars, args, pc, path_increments, signature, stream_index,
                   stream_threads, batch_threads, num_threads, omp_results, omp_used,
                   batch_writes, ret>>

\* Lines 434-443 and 174-212: one iteration of the stream loop of the chunk; the batch
\* loop is shared out over a team of batch threads by a schedule the runtime chooses
ChunkFused(t) ==
    /\ pc = "region"
    /\ t \in 0..(num_threads - 1)
    /\ chunk_pc[t + 1] = "fused"
    /\ chunk_index[t + 1] < chunk_end(output_stream_size, t, num_threads)
    /\ omp_signature' =
          [omp_signature EXCEPT ![t + 1] =
              fused_step(omp_signature[t + 1], path_increments[chunk_index[t + 1] + 1],
                         inverse, input_channel_size, depth, FALSE)]
    /\ \E team \in 1..(IF batch_threads > 1 THEN Min(batch_threads, MaxBatchTeam) ELSE 1) :
          \E schedule \in [BatchRows -> 0..(team - 1)] :
             batch_writes' =
                [batch_writes EXCEPT ![t + 1] =
                    [k \in 1..team |->
                        {batch_row(b) : b \in {r \in BatchRows : schedule[r] = k - 1}}]]
    /\ chunk_index' = [chunk_index EXCEPT ![t + 1] = chunk_index[t + 1] + 1]
    /\ UNCHANGED <<kernel_vars, args, pc, path_increments, signature, stream_index,
                   stream_threads, batch_threads, num_threads, omp_results, omp_used,
                   ran, chunk_pc, ret>>

\* Line 445: omp_results[omp_get_thread_num()] = std::move(...)
ChunkRecord(t) ==
    /\ pc = "region"
    /\ t \in 0..(num_threads - 1)
    /\ chunk_pc[t + 1] = "fused"
    /\ chunk_index[t + 1] >= chunk_end(output_stream_size, t, num_threads)
    /\ omp_results' = [omp_results EXCEPT ![result_slot(t) + 1] =
                          ByTerm(omp_signature[t + 1], input_channel_size, depth)]
    /\ chunk_pc' = [chunk_pc EXCEPT ![t + 1] = "used"]
    /\ UNCHANGED <<kernel_vars, args, pc, path_increments, signature, stream_index,
                   stream_threads, batch_threads, num_threads, omp_used, ran,
                   chunk_index, omp_signature, batch_writes, ret>>

\* Line 446: omp_used[omp_get_thread_num()] = {true}, then the end of the region
ChunkUsed(t) ==
    /\ pc = "region"
    /\ t \in 0..(num_threads - 1)
    /\ chunk_pc[t + 1] = "used"
    /\ omp_used' = [omp_used EXCEPT ![result_slot(t) + 1] = TRUE]
    /\ chunk_pc' = [chunk_pc EXCEPT ![t + 1] = "end"]
    /\ ran' = ran \cup {t}
    /\ UNCHANGED <<kernel_vars, args, pc, path_increments, signature, stream_index,
                   stream_threads, batch_threads, num_threads, omp_results,
                   chunk_index, omp_signature, batch_writes, ret>>

NextRace ==
    \/ CheckArgs
    \/ ComputeIncrements
    \/ FirstTerm
    \/ EnterRegion
    \/ \E t \in 0..(MaxThreads - 1) : ChunkBegin(t)
    \/ \E t \in 0..(MaxThreads - 1) : ChunkFused(t)
    \/ \E t \in 0..(MaxThreads - 1) : ChunkRecord(t)
    \/ \E t \in 0..(MaxThreads - 1) : ChunkUsed(t)
    \/ Join
    \/ Combine
    \/ Return

SpecRace == InitRace /\ [][NextRace]_vars

\* the memory the next statement of thread t writes: a vector element, a private
\* buffer, or nothing when the thread has left the region
ChunkWrites(t) ==
    LET start == chunk_start(output_stream_size, t, num_threads)
        end == chunk_end(output_stream_size, t, num_threads)
    IN CASE chunk_pc[t + 1] = "begin" ->
               IF start < end THEN {<<"omp_signature", t>>} ELSE {}
         [] chunk_pc[t + 1] = "fused" ->
               IF chunk_index[t + 1] < end THEN {<<"omp_signature", t>>}
               ELSE {<<"omp_results", result_slot(t)>>}
         [] chunk_pc[t + 1] = "used" -> {<<"omp_used", result_slot(t)>>}
         [] OTHER -> {}

\* the memory the next statement of thread t reads
ChunkReads(t) ==
    LET start == chunk_start(output_stream_size, t, num_threads)
        end == chunk_end(output_stream_size, t, num_threads)
    IN CASE chunk_pc[t + 1] = "begin" ->
               IF start < end THEN {<<"path_increments", start>>} ELSE {}
         [] chunk_pc[t + 1] = "fused" ->
               IF chunk_index[t + 1] < end
               THEN {<<"omp_signature", t>>, <<"path_increments", chunk_index[t + 1]>>}
               ELSE {<<"omp_signature", t>>}
         [] OTHER -> {}

\* no statement a thread is about to execute writes memory that the statement another
\* thread is about to execute reads or writes, and a thread writes only its own
\* element of omp_results and omp_used and its own private signature
NoConflict ==
    pc = "region" =>
        /\ \A t, u \in 0..(num_threads - 1) :
              t # u => ChunkWrites(t) \cap (ChunkWrites(u) \cup ChunkReads(u)) = {}
        /\ \A t \in 0..(num_threads - 1) :
              /\ ChunkWrites(t) \subseteq {<<"omp_signature", t>>, <<"omp_results", t>>,
                                          <<"omp_used", t>>}
              /\ \A k, l \in DOMAIN batch_writes[t + 1] :
                    k # l => batch_writes[t + 1][k] \cap batch_writes[t + 1][l] = {}

\* C24: in every interleaving of the chunk threads, thread t writes only
\* omp_results[t], omp_used[t] and its private chunk signature; the batch threads of
\* a fused step write disjoint batch rows; the global signature is written only
\* before the parallel region and in the serial combine after every chunk thread has
\* left the region; no two threads are ever about to write the same memory, or one to
\* read what another is about to write.
C24_NoWriteConflict ==
    /\ []NoConflict
    /\ [](pc = "combine" => \A t \in 1..num_threads : chunk_pc[t] = "end")
    /\ [][/\ signature' # signature => pc \in {"increments", "first_term", "combine"}
          /\ (pc = "region" /\ pc' = "region") =>
                /\ \A u \in 1..stream_threads :
                      (omp_results'[u] # omp_results[u] \/ omp_used'[u] # omp_used[u]) =>
                         (u <= num_threads /\ chunk_pc'[u] # chunk_pc[u])
                /\ \A u \in 1..num_threads :
                      omp_signature'[u] # omp_signature[u] =>
                         (chunk_pc'[u] # chunk_pc[u] \/ chunk_index'[u] # chunk_index[u])]_vars

C24_Witness ==
    /\ pc = "region"
    /\ num_threads = MaxThreads
    /\ chunk_pc[1] = "used"
    /\ omp_results[1] # <<>>
    /\ ~omp_used[1]
    /\ chunk_pc[2] = "fused"
    /\ chunk_index[2] >= chunk_end(output_stream_size, 1, num_threads)
    /\ Len(batch_writes[2]) = 2
    /\ batch_writes[2][1] # {}
    /\ batch_writes[2][2] # {}
    /\ chunk_pc[3] = "fused"
    /\ chunk_index[3] < chunk_end(output_stream_size, 2, num_threads)

\* signature_backward is running (the call has bound its arguments)
InBackward == pc \in {"backward_loop", "backward_increments", "backward_done"}

\* C25: for every combination of stream, basepoint, inverse and initial and every
\* S >= 1, no step of signature_backward changes the caller's grad_signature,
\* signature or path_increments: every in-place rollback and every accumulation acts
\* on a clone.
C25_BackwardFrame ==
    /\ [][InBackward => /\ signature' = signature
                        /\ grad_signature' = grad_signature
                        /\ path_increments' = path_increments]_vars
    /\ [](pc = "backward_done" => borrowed.grad = 0 /\ (initial => borrowed.at_stream = 0))

C25_Witness ==
    /\ pc = "backward_done"
    /\ stream
    /\ initial
    /\ Len(path_increments) = 1
    /\ depth >= 2
    /\ signature_at_stream = initial_value.data
    /\ signature_at_stream # signature[1]
    /\ grad_signature_at_stream # grad_signature[1]

(***************************************************************************)
(* Accumulation of the stream gradients, on SpecBackward                   *)
(***************************************************************************)
\* what signature_backward returns with stream = false for the path cut after
\* increment j - 1, its saved signature, and the slice j - 1 of grad_signature alone
PrefixGradient(j) ==
    signature_backward(grad_signature[j], signature[j], SubSeq(path_increments, 1, j),
                       depth, FALSE, basepoint, inverse, initial)

\* rows padded with zero rows to n rows of width w
PadRows(rows, n, w) ==
    [s \in 1..n |-> IF s <= Len(rows) THEN rows[s] ELSE VZero(w)]

\* the sum over the slices j..S of the three gradients of PrefixGradient
RECURSIVE SumPrefixGradients(_)
SumPrefixGradients(j) ==
    LET n == Len(path.data)
        c == input_channel_size
        one == PrefixGradient(j)
        here == <<PadRows(one[1], n, c), one[2], one[3]>>
    IN IF j = Len(path_increments) THEN here
       ELSE LET rest == SumPrefixGradients(j + 1)
            IN <<[s \in 1..n |-> VAdd(here[1][s], rest[1][s])],
                 IF basepoint THEN VAdd(here[2], rest[2]) ELSE <<>>,
                 VAdd(here[3], rest[3])>>

\* C26: with stream = true every slice grad_signature[s], s in [0, S), enters the
\* running gradient exactly once and at its own place: grad_signature[S-1] starts it
\* and grad_signature[s-1] is added after the fused backward of increment s and
\* before the backward step of increment s-1.  Hence what signature_backward returns
\* is the sum over s of what it returns, with stream = false, for the path cut after
\* increment s with the gradient grad_signature[s] alone.
C26_AccumulationOrder ==
    /\ (pc = "backward_loop" /\ stream /\ stream_index = Len(path_increments) - 1) =>
          grad_signature_at_stream = grad_signature[Len(path_increments)]
    /\ (pc = "backward_done" /\ stream) =>
          <<[s \in 1..Len(grad_path) |-> grad_path[s]], grad_basepoint_value,
            grad_initial_value>> = SumPrefixGradients(1)

C26_Witness ==
    /\ pc = "backward_done"
    /\ stream
    /\ Len(path_increments) = MaxBackwardStream
    /\ depth = MaxDepth
    /\ input_channel_size = 2
    /\ \A s \in 1..Len(path_increments) : grad_signature[s] # VZero(output_channel_size)
    /\ \A s \in 1..Len(path_increments) : PrefixGradient(s)[1][1] # VZero(2)

(***************************************************************************)
(* SpecReplay: mult_fused_restricted_exp_backward step by step, for one    *)
(* increment next (the path goes from the origin to next), a saved prev    *)
(* and an incoming gradient grad_prev.  The scratches of one depth_index   *)
(* are rebuilt per step (descending loop of lines 209-233), then one pass  *)
(* of the ascending loop of lines 254-322 per step, then line 329-332.     *)
(***************************************************************************)
ReplayCall ==
    /\ \E c \in Channels :
          /\ depth \in 1..MaxDepth
          /\ path \in {Tensor(<<2, 1, c>>, "float64", "cpu",
                              <<[ch \in 1..c |-> Zero], x>>) :
                           x \in [1..c -> {Int2Rat(v) : v \in ExpCoordinates}]}
    /\ inverse \in BOOLEAN
    /\ initial = FALSE /\ initial_value = NoTensor
    /\ stream = FALSE /\ basepoint = FALSE /\ basepoint_value = NoTensor
    /\ omp_max_threads = MaxThreads
    /\ max_parallelism = MaxThreads

InitReplay == ReplayCall /\ Idle

\* the kernel's arguments as signature_backward passes them (lines 541-544):
\* prev is the rolled-back signature, grad_prev the running gradient, grad_next a
\* row of the empty_like tensor grad_path_increments, whose content is arbitrary
ReplayEnter ==
    /\ pc = "call"
    /\ LET c == input_channel_size
           w == output_channel_size
       IN /\ path_increments' = <<VSub(path.data[2], path.data[1])>>
          /\ signature_at_stream' \in {Ramp(w), Zigzag(w)}
          /\ grad_signature' \in {Zigzag(w), Bits(w)}
          /\ grad_path_increments' \in {<<VZero(c)>>, <<Ramp(c)>>}
    /\ grad_signature_at_stream' = grad_signature'
    /\ all_scratches' = <<>>
    /\ depth_index' = depth - 1
    /\ pc' = "scratches"
    /\ UNCHANGED <<args, signature, stream_index, stream_threads, batch_threads,
                   parallel_vars, ret, layout_vars, arg1_inp, arg2_inp, grad,
                   input_channels, grad_arg1_inp, grad_arg2_inp, combined, borrowed,
                   grad_path, grad_basepoint_value, grad_initial_value,
                   grad_next_divided>>

ReplayNextDivided ==
    LET reciprocals == make_reciprocals(depth)
    IN [i \in 1..Len(reciprocals) |-> VScale(path_increments[1], reciprocals[i])]

\* Lines 209-233: the scratches of one depth_index, pushed onto all_scratches
ReplayScratches ==
    /\ pc = "scratches"
    /\ depth_index >= 1
    /\ LET prev == ByTerm(signature_at_stream, input_channel_size, depth)
           next_divided == ReplayNextDivided
       IN all_scratches' =
             Append(all_scratches,
                    fused_scratches(<<VAdd(prev[1], next_divided[depth_index])>>, 1,
                                    depth_index, prev, next_divided, inverse))
    /\ depth_index' = depth_index - 1
    /\ UNCHANGED <<args, pc, path_increments, signature, stream_index, stream_threads,
                   batch_threads, parallel_vars, ret, layout_vars, arg1_inp, arg2_inp,
                   grad, input_channels, grad_arg1_inp, grad_arg2_inp, combined,
                   borrowed, grad_signature, grad_signature_at_stream,
                   signature_at_stream, grad_path_increments, grad_path,
                   grad_basepoint_value, grad_initial_value, grad_next_divided>>

\* Lines 237 and 253: grad_next_divided = zeros_like, grad_next.copy_(grad_prev[0])
UnwindEnter ==
    /\ pc = "scratches"
    /\ depth_index < 1
    /\ grad_next_divided' = [i \in 1..(depth - 1) |-> VZero(input_channel_size)]
    /\ grad_path_increments' =
          <<ByTerm(grad_signature_at_stream, input_channel_size, depth)[1]>>
    /\ depth_index' = 1
    /\ pc' = "unwind"
    /\ UNCHANGED <<args, path_increments, signature, stream_index, stream_threads,
                   batch_threads, parallel_vars, ret, layout_vars, arg1_inp, arg2_inp,
                   grad, input_channels, grad_arg1_inp, grad_arg2_inp, combined,
                   borrowed, grad_signature, grad_signature_at_stream,
                   signature_at_stream, grad_path, grad_basepoint_value,
                   grad_initial_value, all_scratches>>

\* position in all_scratches of the scratches of depth_index (back_index, from 1)
back_index(size, index) == size - index + 1

\* Lines 254-322: one pass of the ascending loop
UnwindDepth ==
    /\ pc = "unwind"
    /\ depth_index < depth
    /\ LET c == input_channel_size
           pass == fused_backward_pass(
                       depth_index,
                       all_scratches[back_index(Len(all_scratches), depth_index)],
                       grad_path_increments[1],
                       ByTerm(grad_signature_at_stream, c, depth),
                       grad_next_divided, path_increments[1], ReplayNextDivided,
                       inverse)
       IN /\ grad_path_increments' = <<pass[1]>>
          /\ grad_signature_at_stream' =
                StoreByTerm(grad_signature_at_stream, pass[2], c, depth)
          /\ grad_next_divided' = pass[3]
    /\ depth_index' = depth_index + 1
    /\ UNCHANGED <<args, pc, path_increments, signature, stream_index, stream_threads,
                   batch_threads, parallel_vars, ret, layout_vars, arg1_inp, arg2_inp,
                   grad, input_channels, grad_arg1_inp, grad_arg2_inp, combined,
                   borrowed, grad_signature, signature_at_stream, grad_path,
                   grad_basepoint_value, grad_initial_value, all_scratches>>

\* Lines 327-332: grad_next += reciprocals * grad_next_divided when depth > 1
UnwindExit ==
    /\ pc = "unwind"
    /\ depth_index >= depth
    /\ grad_path_increments' =
          <<IF depth > 1
            THEN collapse_next_divided(grad_path_increments[1], grad_next_divided,
                                       make_reciprocals(depth), 1)
            ELSE grad_path_increments[1]>>
    /\ pc' = "replay_done"
    /\ UNCHANGED <<args, path_increments, signature, stream_index, stream_threads,
                   batch_threads, parallel_vars, ret, layout_vars, combine_vars,
                   borrowed, grad_signature, grad_signature_at_stream,
                   signature_at_stream, grad_path, grad_basepoint_value,
                   grad_initial_value, replay_vars>>

NextReplay ==
    \/ ReplayEnter
    \/ ReplayScratches
    \/ UnwindEnter
    \/ UnwindDepth
    \/ UnwindExit

SpecReplay == InitReplay /\ [][NextReplay]_vars

RECURSIVE CountScratches(_, _)
CountScratches(all, i) ==
    IF i > Len(all) THEN 0 ELSE Len(all[i]) + CountScratches(all, i + 1)

ScratchesRebuilt == pc \in {"unwind", "replay_done"}

\* the state part of C27
ReplayState ==
    LET c == input_channel_size
        prev == ByTerm(signature_at_stream, c, depth)
        next_divided == ReplayNextDivided
        incoming == ByTerm(grad_signature, c, depth)
        grad_prev == ByTerm(grad_signature_at_stream, c, depth)
    IN /\ ScratchesRebuilt =>
             /\ Len(all_scratches) = depth - 1
             /\ 2 * CountScratches(all_scratches, 1) = depth * (depth - 1)
             /\ \A d \in 1..(depth - 1) :
                   LET scratches == all_scratches[back_index(depth - 1, d)]
                       first == VAdd(prev[1], next_divided[d])
                   IN /\ Len(scratches) = d
                      /\ \A i \in 1..d :
                            scratches[i] = fused_scratch_until(first, 1, i, d, prev,
                                                               next_divided, inverse)
                      /\ scratches[d] = fused_scratch(first, 1, d, prev, next_divided,
                                                      inverse)
       /\ pc = "unwind" =>
             \A d \in depth_index..(depth - 1) : grad_prev[d + 1] = incoming[d + 1]
       /\ (pc = "replay_done" /\ depth = 1) =>
             /\ grad_path_increments[1] = incoming[1]
             /\ grad_signature_at_stream = grad_signature
       /\ pc = "replay_done" =>
             <<grad_path_increments[1], grad_prev>> =
                mult_fused_restricted_exp_backward(
                    VZero(c), incoming, path_increments[1], prev, inverse,
                    make_reciprocals(depth))

\* C27: for every D >= 1 mult_fused_restricted_exp_backward rebuilds exactly
\* D(D-1)/2 scratches, d of them for each target depth d = 1..D-1, each equal to the
\* scratch mult_fused_restricted_exp computes for the same prev, next and inverse;
\* the unwinding takes d = 1..D-1 in ascending order and reads grad_prev[d] before
\* anything has been accumulated into it; for D = 1 grad_next = grad_prev[0] and
\* grad_prev is unchanged.
C27_ScratchReplay ==
    /\ []ReplayState
    /\ [][/\ (pc = "scratches" /\ pc' = "unwind") => depth_index' = 1
          /\ (pc = "unwind" /\ pc' = "unwind") => depth_index' = depth_index + 1
          /\ (pc = "unwind" /\ pc' = "replay_done") => depth_index = depth]_vars

C27_Witness ==
    /\ pc = "replay_done"
    /\ depth = MaxDepth
    /\ input_channel_size = 2
    /\ inverse
    /\ CountScratches(all_scratches, 1) >= 3
    /\ \A i \in 1..Len(all_scratches) :
          all_scratches[i][Len(all_scratches[i])] # VZero(Len(all_scratches[i][Len(all_scratches[i])]))
    /\ path_increments[1][1] # path_increments[1][2]
    /\ grad_signature_at_stream # grad_signature

(***************************************************************************)
(* SpecTelescope: the forward driver in all its modes: small calls with    *)
(* every combination of stream, basepoint, inverse and initial on both     *)
(* devices, and the large CPU calls that are split into chunks             *)
(***************************************************************************)
TelescopeCall ==
    \/ ValidCall(2..(MaxStream - 1), BOOLEAN, BOOLEAN, BOOLEAN, BOOLEAN)
    \/ ChunkCall
    \/ InverseChunkCall

InitTelescope == TelescopeCall /\ Idle

SpecTelescope == InitTelescope /\ [][NextDispatch]_vars

\* the sum of the increments with 0-based stream indices from .. to - 1
RECURSIVE IncrementSum(_, _)
IncrementSum(from, to) ==
    IF from >= to THEN VZero(input_channel_size)
    ELSE VAdd(path_increments[from + 1], IncrementSum(from + 1, to))

\* the depth-1 term of a stored signature
DepthOne(row) == ByTerm(row, input_channel_size, depth)[1]

\* the increments 0 .. s - 1 telescoped, on top of the initial value if supplied
Telescoped(s) ==
    IF initial THEN VAdd(DepthOne(initial_value.data), IncrementSum(0, s))
    ELSE IncrementSum(0, s)

\* the number of increments the running signature has consumed
Consumed ==
    CASE pc \in {"inner", "inner_cpu", "parallel", "region"} -> stream_index
      [] pc = "combine" ->
            IF stream_index = 0 THEN 1
            ELSE chunk_end(output_stream_size, Min(stream_index, num_threads) - 1,
                           num_threads)
      [] pc = "done" -> output_stream_size
      [] OTHER -> 0

\* the displacement of the whole path from its starting point
Displacement ==
    VSub(path.data[input_stream_size],
         IF basepoint THEN basepoint_value.data ELSE path.data[1])

\* C28: once the forward driver has consumed the increments 0..s the depth-1 term of
\* the running signature is their sum, plus the depth-1 term of initial_value when
\* supplied (serial, stream and chunked mode, either inverse value); the finished
\* signature without initial has path[N-1] minus the starting point there, negated
\* when inverse = true.
C28_DepthOneTelescopes ==
    /\ Consumed >= 1 =>
          IF stream
          THEN \A s \in 1..Consumed : DepthOne(signature[s]) = Telescoped(s)
          ELSE DepthOne(signature) = Telescoped(Consumed)
    /\ pc \in {"region", "combine"} =>
          \A t \in 0..(num_threads - 1) :
             omp_used[t + 1] =>
                omp_results[t + 1][1] =
                   IncrementSum(chunk_start(output_stream_size, t, num_threads),
                                chunk_end(output_stream_size, t, num_threads))
    /\ (pc = "done" /\ ~initial) =>
          DepthOne(IF stream THEN signature[output_stream_size] ELSE signature) =
             IF inverse THEN VNeg(Displacement) ELSE Displacement

\* a stream call with a basepoint, an initial value and inverse has finished
C28_Witness ==
    /\ pc = "done"
    /\ stream /\ basepoint /\ initial /\ inverse
    /\ output_stream_size = MaxStream - 1
    /\ depth = MaxDepth
    /\ DepthOne(initial_value.data) # VZero(input_channel_size)
    /\ \A s \in 1..output_stream_size : path_increments[s] # VZero(input_channel_size)
    /\ DepthOne(signature[output_stream_size]) # DepthOne(signature[1])

(***************************************************************************)
(* SpecInverse: signature_forward on a path, then signature_combine_forward *)
(* of its result with the signature of the same path under the opposite    *)
(* inverse flag, in either argument order                                  *)
(***************************************************************************)
InitInverse ==
    ValidCall(2..(MaxStream - 1), {FALSE}, BOOLEAN, BOOLEAN, {FALSE}) /\ Idle

\* the call of signature_combine_forward on the returned signature and the signature
\* of the same arguments with inverse flipped
CombineWithInverse ==
    /\ pc = "done"
    /\ LET other == signature_serial(path.data, depth, basepoint, basepoint_value.data,
                                     ~inverse, FALSE, <<>>, is_cuda(path))
       IN \E first \in BOOLEAN :
             /\ arg1_inp' = IF first THEN signature ELSE other
             /\ arg2_inp' = IF first THEN other ELSE signature
    /\ input_channels' = input_channel_size
    /\ pc' = "combine_forward"
    /\ UNCHANGED <<args, path_increments, signature, stream_index, stream_threads,
                   batch_threads, parallel_vars, ret, layout_vars, backward_vars, grad,
                   grad_arg1_inp, grad_arg2_inp, depth_index, combined>>

NextInverse ==
    \/ CheckArgs
    \/ ComputeIncrements
    \/ FirstTerm
    \/ signature_forward_inner
    \/ signature_forward_inner_cpu
    \/ Return
    \/ CombineWithInverse
    \/ CombineForwardEnter
    \/ CombineForwardStep
    \/ CombineForwardReturn

SpecInverse == InitInverse /\ [][NextInverse]_vars

\* C29: for every path, signature_combine_forward of signature(path, D) and
\* signature(path, D, inverse = true), in this and in the opposite argument order,
\* returns the identity of the truncated tensor algebra: all W stored entries are 0.
C29_InverseCancels ==
    pc = "combine_forward_done" =>
        /\ Len(combined) = output_channel_size
        /\ combined = VZero(output_channel_size)

\* the product has been taken of two signatures that are not the identity, do not
\* commute with every element and differ from each other
C29_Witness ==
    /\ pc = "combine_forward_done"
    /\ depth = MaxDepth
    /\ input_channel_size = 2
    /\ output_stream_size = MaxStream - 1
    /\ basepoint
    /\ arg1_inp # arg2_inp
    /\ \A i \in 1..Len(arg1_inp) : arg1_inp[i] # Zero
    /\ signature_combine_forward(arg1_inp, arg1_inp, 2, depth) # VZero(Len(arg1_inp))
    /\ path_increments[1] # path_increments[2]

(***************************************************************************)
(* No empty chunk when the whole team is granted, on SpecDispatch          *)
(***************************************************************************)
\* the parallel region has been entered with at least two stream threads and the
\* runtime has granted all of them
FullTeam ==
    /\ pc \in {"region", "combine"}
    /\ stream_threads >= 2
    /\ num_threads = stream_threads

\* omp_results[t] holds a signature with every term written
FullyInitialised(result) ==
    /\ Len(result) = depth
    /\ \A d \in 1..depth : Len(result[d]) = Power(input_channel_size, d)

\* C30: when the chunked branch is entered with stream_threads = T >= 2 and the
\* runtime grants all T threads, every chunk t in [0, T) has start_t < end_t, so
\* every omp_used[t] is set and every omp_results[t] that is combined holds a fully
\* initialised signature; a chunk whose omp_used[t] is false is never read by the
\* combine phase.
C30_NoEmptyChunk ==
    /\ [](FullTeam =>
             /\ stream_threads <= (input_stream_size + 2) \div 3
             /\ \A t \in 0..(stream_threads - 1) :
                   /\ chunk_start(output_stream_size, t, num_threads) <
                         chunk_end(output_stream_size, t, num_threads)
                   /\ (t \in ran \/ pc = "combine") =>
                         /\ omp_used[t + 1]
                         /\ FullyInitialised(omp_results[t + 1]))
    /\ [](pc \in {"region", "combine"} =>
             \A t \in 1..stream_threads : ~omp_used[t] => omp_results[t] = <<>>)
    /\ [][(pc = "combine" /\ stream_index < stream_threads
              /\ ~omp_used[stream_index + 1]) => signature' = signature]_vars

\* the longest path with a basepoint split into MaxThreads chunks: all threads
\* granted, all used, the last chunk being combined
C30_Witness ==
    /\ pc = "combine"
    /\ stream_threads = MaxThreads
    /\ num_threads = MaxThreads
    /\ stream_index = MaxThreads - 1
    /\ Len(path.data) = LongStream
    /\ basepoint
    /\ \A t \in 1..MaxThreads : omp_used[t]
    /\ depth = 2

====
